---- MODULE Spec2Model ----
(***************************************************************************)
(* A model of the six502 CPU core: the register file, the data bus, the    *)
(* addressing-mode resolver, the opcode handlers and the exec dispatcher.  *)
(*                                                                         *)
(* A CPU value is a record holding the fields of struct Six502 together    *)
(* with the two arrays of struct Mem that the bus can address.  Every      *)
(* helper is an operator from CPU records to CPU records (or to a pair of  *)
(* a CPU record and a returned value), written statement by statement      *)
(* after the Rust source.  A Rust panic is recorded in the field `fault`;  *)
(* once it is set, every later statement of the handler is skipped, which  *)
(* is what unwinding does.  Arithmetic that overflows with `+`/`-` panics  *)
(* when the build has overflow checks and wraps otherwise; the build is    *)
(* the variable overflow_checks, chosen in Init and never changed.         *)
(*                                                                         *)
(* A Rust `let r = f(..); rest` is written LET With(r) == rest IN          *)
(* With(f(..)): the value a helper returns travels in the field v of the   *)
(* CPU record it returns.                                                   *)
(***************************************************************************)
EXTENDS Integers, Sequences, FiniteSets, TLC

----------------------------------------------------------------------------
\* Bounds of the model.

\* instructions executed in one behaviour
MaxSteps == 2

\* the reads of the joypad followed after the strobe falls
MaxReads == 10

----------------------------------------------------------------------------
\* Program constants.

CARRY == 1
ZERO == 2
IRQ == 4
DECIMAL == 8
BREAK == 16
UNUSED == 32
OVERFLOW == 64
NEGATIVE == 128

STACK_OFFSET == 256

VEC_NMI == 65530
VEC_RESET == 65532
VEC_IRQ == 65534

\* number of entries of Mem.zp and of Mem.stack
ZP_LEN == 256
STACK_LEN == 256

U8 == 256
U16 == 65536

Byte == 0..255

NoFault == "none"

----------------------------------------------------------------------------
\* Bit operations on naturals (Rust's &, |, ^, <<, >> on u8 and u16).

RECURSIVE BitAnd(_, _)
BitAnd(m, n) ==
    IF m = 0 \/ n = 0 THEN 0
    ELSE (m % 2) * (n % 2) + 2 * BitAnd(m \div 2, n \div 2)

RECURSIVE BitOr(_, _)
BitOr(m, n) ==
    IF m = 0 THEN n
    ELSE IF n = 0 THEN m
    ELSE (IF m % 2 = 1 \/ n % 2 = 1 THEN 1 ELSE 0) + 2 * BitOr(m \div 2, n \div 2)

RECURSIVE BitXor(_, _)
BitXor(m, n) ==
    IF m = 0 THEN n
    ELSE IF n = 0 THEN m
    ELSE ((m + n) % 2) + 2 * BitXor(m \div 2, n \div 2)

\* !v on a u8
Not8(v) == 255 - v

\* !v on a u16
Not16(v) == 65535 - v

\* u16::from_le_bytes([lo, hi])
FromLeBytes(lo, hi) == lo + 256 * hi

\* v as i8 as u16: sign extension of a byte to 16 bits
SignExtend(v) == IF v >= 128 THEN v + 65280 ELSE v

----------------------------------------------------------------------------
\* The state.

VARIABLES
    a,                \* Six502.a
    x,                \* Six502.x
    y,                \* Six502.y
    pc,               \* Six502.pc
    s,                \* Six502.s
    cy,               \* Six502.cy
    p,                \* Six502.p
    addr_bus,         \* Six502.addr_bus
    data,             \* Six502.data
    zp,               \* Six502.bus.mem.zp
    stack,            \* Six502.bus.mem.stack
    fault,            \* "none", or the panic that ended the run
    overflow_checks,  \* whether the build panics on integer overflow
    bus_log,          \* the bus accesses of the last instruction, in order
    hist,             \* one record per instruction started: its opcode and the registers before it
    pre_zp,           \* Mem.zp before the last instruction
    rdr,              \* the reader Rom::load_rom is given: its first 16 bytes and the length of the rest
    hdr_out,          \* what Rom::load_hdr returned
    rom,              \* what Rom::load_rom returned
    joypad,           \* Joypad: strobe, index, curr
    joy,              \* the last access to the joypad and the reads since the strobe fell
    paged             \* a call of PagedData::nth or load_u8: its arguments and its result

cpu_vars == <<a, x, y, pc, s, cy, p, addr_bus, data, zp, stack, fault,
              overflow_checks, bus_log, hist, pre_zp>>

dev_vars == <<rdr, hdr_out, rom, joypad, joy, paged>>

vars == <<cpu_vars, dev_vars>>

\* The CPU as one value, at the start of an instruction.
Cpu ==
    [a |-> a, x |-> x, y |-> y, pc |-> pc, s |-> s, cy |-> cy, p |-> p,
     addr_bus |-> addr_bus, data |-> data, zp |-> zp, stack |-> stack,
     fault |-> fault, overflow_checks |-> overflow_checks, bus_log |-> <<>>,
     v |-> 0]

Ok(c) == c.fault = NoFault

\* panic!(...), or a failed bounds or overflow check
Panic(c, why) == IF Ok(c) THEN [c EXCEPT !.fault = why] ELSE c

\* a statement nc of the handler, skipped once the handler has panicked
Then(c, nc) == IF Ok(c) THEN nc ELSE c

\* the CPU after a call that returns v
Ret(c, v) == [c EXCEPT !.v = v]

\* `m + n` or `m - n` left the type: panics under overflow checks, wraps otherwise
Overflowed(c, cond) ==
    IF Ok(c) /\ cond /\ c.overflow_checks THEN Panic(c, "arithmetic overflow") ELSE c

Logged(c, k, addr) == [c EXCEPT !.bus_log = Append(@, [k |-> k, addr |-> addr])]

----------------------------------------------------------------------------
\* bus.rs: Mem and DataBus.

\* Mem::load_zp: self.zp[addr]
load_zp(c, addr) ==
    IF addr < ZP_LEN THEN Ret(c, c.zp[addr])
    ELSE Ret(Panic(c, "index out of bounds"), 0)

\* Mem::load_stack: self.stack[addr], addr being the full bus address
load_stack(c, addr) ==
    IF addr < STACK_LEN THEN Ret(c, c.stack[addr])
    ELSE Ret(Panic(c, "index out of bounds"), 0)

\* Mem::store_zp: self.zp[addr] = v
store_zp(c, addr, v) ==
    IF addr < ZP_LEN THEN [c EXCEPT !.zp[addr] = v]
    ELSE Panic(c, "index out of bounds")

\* Mem::store_stack: self.zp[addr] = v, addr being the full bus address
store_stack(c, addr, v) ==
    IF addr < ZP_LEN THEN [c EXCEPT !.zp[addr] = v]
    ELSE Panic(c, "index out of bounds")

\* <DataBus as ByteAccess>::load_u8
bus_load_u8(c, addr) ==
    IF ~Ok(c) THEN Ret(c, 0)
    ELSE IF addr <= 255 THEN load_zp(Logged(c, "r", addr), addr)
    ELSE IF addr <= 511 THEN load_stack(Logged(c, "r", addr), addr)
    ELSE Ret(Panic(Logged(c, "r", addr), "address not addressable"), 0)

\* <DataBus as ByteAccess>::store_u8
bus_store_u8(c, addr, v) ==
    IF ~Ok(c) THEN c
    ELSE IF addr <= 255 THEN store_zp(Logged(c, "w", addr), addr, v)
    ELSE IF addr <= 511 THEN store_stack(Logged(c, "w", addr), addr, v)
    ELSE Panic(Logged(c, "w", addr), "address not addressable")

\* <T as WordAccess>::load_u16 on the CPU: two byte loads, low byte at addr
load_u16_at(c, addr) ==
    LET WithLo(lo) ==
            LET WithHi(hi) == Ret(hi, FromLeBytes(lo.v, hi.v))
            IN  WithHi(bus_load_u8(Overflowed(lo, addr + 1 > 65535), (addr + 1) % U16))
    IN  WithLo(bus_load_u8(c, addr))

\* <T as WordAccess>::store_u16 on the CPU: low byte at addr, high byte at addr + 1
store_u16_at(c, addr, w) ==
    LET WithLo(c1) == bus_store_u8(Overflowed(c1, addr + 1 > 65535), (addr + 1) % U16, w \div 256)
    IN  WithLo(bus_store_u8(c, addr, w % 256))

----------------------------------------------------------------------------
\* six502/six502.rs: the CPU's own bus access, through addr_bus.

\* <Six502 as ByteAccess>::load_u8: self.bus.load_u8(self.addr_bus)
load_u8(c) == bus_load_u8(c, c.addr_bus)

\* <Six502 as ByteAccess>::store_u8: self.bus.store_u8(self.addr_bus, v)
store_u8(c, v) == bus_store_u8(c, c.addr_bus, v)

\* <Six502 as ByteAccess>::bump: self.addr_bus += 1
bump(c) ==
    IF c.addr_bus = 65535 /\ c.overflow_checks THEN Panic(c, "arithmetic overflow")
    ELSE Then(c, [c EXCEPT !.addr_bus = (c.addr_bus + 1) % U16])

\* Six502::tick: self.cy += 1
tick(c) == Then(c, [c EXCEPT !.cy = @ + 1])

\* Six502::atom: runs the closure, then ticks once
atom(c) == tick(c)

\* self.data = self.load_u8(): the loaded byte is latched in data and returned
latch(c) ==
    LET WithByte(r) == Then(r, [r EXCEPT !.data = r.v])
    IN  WithByte(load_u8(c))

\* Six502::load_u8_bump_pc: puts pc on the address bus, bumps pc, loads into data
load_u8_bump_pc(c) ==
    latch(Then(c, [c EXCEPT !.addr_bus = c.pc, !.pc = (c.pc + 1) % U16]))

\* Six502::load_u16_bump_pc: both loads go through addr_bus, which the function
\* never sets from pc: the first load re-reads the address left on the bus
load_u16_bump_pc(c) ==
    LET WithLo(lo) ==
            LET WithHi(hi) ==
                    Ret(tick(Then(hi, [hi EXCEPT !.pc = (hi.pc + 1) % U16])),
                        FromLeBytes(lo.v, hi.v))
            IN  WithHi(latch(bump(tick(lo))))
    IN  WithLo(latch(Then(c, [c EXCEPT !.pc = (c.pc + 1) % U16])))

\* <Six502 as WordAccess>::load_u16 through addr_bus: low byte, bump, high byte
load_u16(c) ==
    LET WithLo(lo) ==
            LET WithHi(hi) == Ret(hi, FromLeBytes(lo.v, hi.v))
            IN  WithHi(load_u8(bump(lo)))
    IN  WithLo(load_u8(c))

----------------------------------------------------------------------------
\* six502/util.rs: the stack and the flag helpers.

\* push_u8: store at STACK_OFFSET + s, then s := s - 1 (wrapping)
push_u8(c, b) ==
    LET Stored(c1) == Then(c1, [c1 EXCEPT !.s = (c1.s + 255) % U8])
    IN  Stored(bus_store_u8(c, STACK_OFFSET + c.s, b))

\* pull_u8: load from STACK_OFFSET + s + 1, then s := s + 1 (wrapping)
pull_u8(c) ==
    LET Loaded(r) == Then(r, [r EXCEPT !.s = (r.s + 1) % U8])
    IN  Loaded(bus_load_u8(c, STACK_OFFSET + c.s + 1))

\* push_u16: store the word at STACK_OFFSET + (s - 1), then s := s - 2 (wrapping);
\* `self.s - 1` is a u8 subtraction
push_u16(c, w) ==
    LET Stored(c1) == Then(c1, [c1 EXCEPT !.s = (c1.s + 254) % U8])
    IN  Stored(store_u16_at(Overflowed(c, c.s = 0), STACK_OFFSET + ((c.s + 255) % U8), w))

\* pull_u16: load the word at STACK_OFFSET + s + 1, then s := s + 2 (wrapping)
pull_u16(c) ==
    LET Loaded(r) == Then(r, [r EXCEPT !.s = (r.s + 2) % U8])
    IN  Loaded(load_u16_at(c, STACK_OFFSET + c.s + 1))

\* set_flag: self.p |= flag
set_flag(c, flag) == Then(c, [c EXCEPT !.p = BitOr(@, flag)])

\* clear_flag: self.p &= !flag
clear_flag(c, flag) == Then(c, [c EXCEPT !.p = BitAnd(@, Not8(flag))])

\* assert_flag: sets the flag when cond holds and clears it otherwise
assert_flag(c, flag, cond) == IF cond THEN set_flag(c, flag) ELSE clear_flag(c, flag)

\* is_flag_set: self.p & flag != 0
is_flag_set(c, flag) == BitAnd(c.p, flag) # 0

\* update_z: Z := (v = 0)
update_z(c, v) == assert_flag(c, ZERO, v = 0)

\* a faulty update_n that sets N and never clears it
update_n_set_only(c, v) == IF BitAnd(v, 128) # 0 THEN set_flag(c, NEGATIVE) ELSE c

\* update_n: N := bit 7 of v
update_n(c, v) == assert_flag(c, NEGATIVE, BitAnd(v, 128) # 0)

\* update_zn_flags: Z and N from v
update_zn_flags(c, v) == update_n(update_z(c, v), v)

\* a faulty overflow test that compares the sign of the first operand alone
\* with the sign of the result: (a ^ res) & 0x80 != 0
sign_changed(m, n, res) == BitAnd(BitXor(m, res), 128) # 0

\* check_overflow: (a ^ res) & (b ^ res) & 0x80 != 0
check_overflow(m, n, res) == BitAnd(BitAnd(BitXor(m, res), BitXor(n, res)), 128) # 0


\* the tail of nmi and irq: self.p |= flags::IRQ; self.pc = self.load_u16(vector);
\* self.cy += 7
enter_vector(c, vector) ==
    LET WithVec(r) == Then(r, [r EXCEPT !.pc = r.v, !.cy = @ + 7])
    IN  WithVec(load_u16_at(Then(c, [c EXCEPT !.p = BitOr(@, IRQ)]), vector))

\* Six502::nmi: push pc, push p, set I, pc from the NMI vector, 7 cycles
nmi(c) == enter_vector(push_u8(push_u16(c, c.pc), c.p), VEC_NMI)

\* Six502::irq: push pc, push p, set I, pc from the IRQ vector, 7 cycles
irq(c) == enter_vector(push_u8(push_u16(c, c.pc), c.p), VEC_IRQ)

\* Six502::interrupt: an empty body
interrupt(c) == c
----------------------------------------------------------------------------
\* six502/addressing.rs: the addressing-mode resolver.

\* u8::wrapping_add
WrapAdd8(m, n) == (m + n) % U8

\* addr_bus := addr, then load through it
load_from(c, addr) == load_u8(Then(c, [c EXCEPT !.addr_bus = addr]))

\* addr_bus := addr, then store through it
store_to(c, addr, v) == store_u8(Then(c, [c EXCEPT !.addr_bus = addr]), v)

\* addr_bus := w + n in u16 arithmetic, then load through it
load_from_sum(c, w, n) == load_from(Overflowed(c, w + n > 65535), (w + n) % U16)

\* addr_bus := w + n in u16 arithmetic, then store through it
store_to_sum(c, w, n, v) == store_to(Overflowed(c, w + n > 65535), (w + n) % U16, v)

\* addr_bus := (b + 1) as u16, the addition done in u8, then load through it
load_from_succ(c, b) == load_from(Overflowed(c, b = 255), (b + 1) % U8)

\* <Six502 as Addressing>::dispatch_load
dispatch_load(c, mode) ==
    CASE mode = "Acc_Addrs" -> Ret(atom(c), c.a)
      [] mode = "Abs_Addrs" ->
            LET WithP1(p1) ==
                    LET WithP2(p2) == atom(load_from(p2, FromLeBytes(p1.v, p2.v)))
                    IN  WithP2(atom(load_u8_bump_pc(p1)))
            IN  WithP1(atom(load_u8_bump_pc(c)))
      [] mode = "AbsX_Idxd" ->
            LET WithP1(p1) ==
                    LET WithP2(p2) ==
                            IF p1.v + c.x > 255
                            THEN atom(load_from(Overflowed(p2, WrapAdd8(p1.v, c.x) = 255),
                                                FromLeBytes((WrapAdd8(p1.v, c.x) + 1) % U8, p2.v)))
                            ELSE load_from(p2, FromLeBytes(WrapAdd8(p1.v, c.x), p2.v))
                    IN  WithP2(atom(load_u8_bump_pc(p1)))
            IN  WithP1(atom(load_u8_bump_pc(c)))
      [] mode = "AbsY_Idxd" ->
            LET WithOp(op) == load_from_sum(op, op.v, c.y)
            IN  WithOp(load_u16_bump_pc(c))
      [] mode = "Immediate" -> atom(load_u8_bump_pc(c))
      [] mode = "Zero_Page" ->
            LET WithAddr(r) == atom(load_from(r, r.v))
            IN  WithAddr(atom(load_u8_bump_pc(c)))
      [] mode = "ZP_X_Idxd" ->
            LET WithAddr(r) == load_from(r, WrapAdd8(r.v, c.x))
            IN  WithAddr(load_u8_bump_pc(c))
      [] mode = "ZP_Y_Idxd" ->
            LET WithAddr(r) == load_from(r, WrapAdd8(r.v, c.y))
            IN  WithAddr(load_u8_bump_pc(c))
      [] mode = "X_Idx_Ind" ->
            LET WithV(r) ==
                    LET WithLo(lo) ==
                            LET WithHi(hi) == load_from(hi, FromLeBytes(lo.v, hi.v))
                            IN  WithHi(load_from_succ(lo, WrapAdd8(c.x, r.v)))
                    IN  WithLo(load_from(r, WrapAdd8(c.x, r.v)))
            IN  WithV(load_u8_bump_pc(c))
      [] mode = "Ind_Y_Idx" ->
            LET WithV(r) ==
                    LET WithLo(lo) ==
                            LET WithHi(hi) ==
                                    load_from(hi, (FromLeBytes(lo.v, hi.v) + c.y) % U16)
                            IN  WithHi(load_from_succ(lo, r.v))
                    IN  WithLo(load_from(r, r.v))
            IN  WithV(load_u8_bump_pc(c))
      [] mode = "Impl_Addr" -> Ret(tick(c), 0)
      [] mode = "Rel_Addrs" ->
            LET WithOff(r) ==
                    LET Moved(c1) ==
                            Ret(IF r.pc + SignExtend(r.v) > 65535 THEN tick(c1) ELSE c1, 0)
                    IN  Moved(atom(Then(r, [r EXCEPT !.pc = (r.pc + SignExtend(r.v)) % U16])))
            IN  WithOff(atom(load_u8_bump_pc(c)))
      [] OTHER -> Ret(Panic(c, "not yet implemented"), 0)

\* <Six502 as Addressing>::dispatch_store
dispatch_store(c, v, mode) ==
    CASE mode = "Acc_Addrs" -> Then(c, [c EXCEPT !.a = v])
      [] mode = "Abs_Addrs" ->
            LET WithAddr(r) == store_to(r, r.v, v)
            IN  WithAddr(load_u16_bump_pc(c))
      [] mode = "AbsX_Idxd" ->
            LET WithAddr(r) == store_to_sum(r, r.v, c.x, v)
            IN  WithAddr(load_u16_bump_pc(load_u16_bump_pc(c)))
      [] mode = "AbsY_Idxd" ->
            LET WithAddr(r) == store_to_sum(r, r.v, c.y, v)
            IN  WithAddr(load_u16_bump_pc(load_u16_bump_pc(c)))
      [] mode = "Immediate" -> c
      [] mode = "Zero_Page" ->
            LET WithAddr(r) == store_to(r, r.v, v)
            IN  WithAddr(load_u8_bump_pc(c))
      [] mode = "ZP_X_Idxd" ->
            LET WithAddr(r) == store_to(r, WrapAdd8(r.v, c.x), v)
            IN  WithAddr(load_u8_bump_pc(c))
      [] mode = "ZP_Y_Idxd" ->
            LET WithAddr(r) == store_to(r, WrapAdd8(r.v, c.y), v)
            IN  WithAddr(load_u8_bump_pc(c))
      [] mode = "X_Idx_Ind" ->
            \* `let v = self.load_u8_bump_pc()` shadows the value to store
            LET WithV(r) ==
                    LET WithLo(lo) ==
                            LET WithHi(hi) == store_to(hi, FromLeBytes(lo.v, hi.v), r.v)
                            IN  WithHi(load_from(lo, WrapAdd8(WrapAdd8(c.x, r.v), 1)))
                    IN  WithLo(load_from(r, WrapAdd8(c.x, r.v)))
            IN  WithV(load_u8_bump_pc(c))
      [] mode = "Ind_Y_Idx" ->
            \* `let v = self.load_u8_bump_pc()` shadows the value to store
            LET WithV(r) ==
                    LET WithLo(lo) ==
                            LET WithHi(hi) ==
                                    store_to(hi, (FromLeBytes(lo.v, hi.v) + c.y) % U16, r.v)
                            IN  WithHi(load_from_succ(lo, r.v))
                    IN  WithLo(load_from(r, r.v))
            IN  WithV(load_u8_bump_pc(c))
      [] OTHER -> Panic(c, "not yet implemented")

----------------------------------------------------------------------------
\* six502/opcodes.rs: the opcode handlers.  Each takes the CPU after the
\* opcode fetch and the addressing mode exec passes.

\* assignments to the registers
set_a(c, v) == Then(c, [c EXCEPT !.a = v])

set_x(c, v) == Then(c, [c EXCEPT !.x = v])

set_y(c, v) == Then(c, [c EXCEPT !.y = v])

set_s(c, v) == Then(c, [c EXCEPT !.s = v])

set_p(c, v) == Then(c, [c EXCEPT !.p = v])

set_pc(c, w) == Then(c, [c EXCEPT !.pc = w])

set_addr_bus(c, w) == Then(c, [c EXCEPT !.addr_bus = w])

\* load/store ops
lda(c, mode) ==
    LET WithV(r) == update_zn_flags(set_a(r, r.v), r.v)
    IN  WithV(dispatch_load(c, mode))

ldx(c, mode) ==
    LET WithV(r) == update_zn_flags(set_x(r, r.v), r.v)
    IN  WithV(dispatch_load(c, mode))

ldy(c, mode) ==
    LET WithV(r) == update_zn_flags(set_y(r, r.v), r.v)
    IN  WithV(dispatch_load(c, mode))

sta(c, mode) == dispatch_store(c, c.a, mode)

stx(c, mode) == dispatch_store(c, c.x, mode)

sty(c, mode) == dispatch_store(c, c.y, mode)

\* comparisons

\* a faulty compare that sets Z and N and leaves the carry as it was
compare_zn_only(c, reg, v) == update_zn_flags(c, ((reg - v) % U16) % U8)

compare(c, reg, v) ==
    update_zn_flags(assert_flag(c, CARRY, reg >= v), ((reg - v) % U16) % U8)

cmp(c, mode) ==
    LET WithV(r) == compare(r, r.a, r.v)
    IN  WithV(dispatch_load(c, mode))

cpx(c, mode) ==
    LET WithV(r) == compare(r, r.x, r.v)
    IN  WithV(dispatch_load(c, mode))

cpy(c, mode) ==
    LET WithV(r) == compare(r, r.y, r.v)
    IN  WithV(dispatch_load(c, mode))

bit(c, mode) ==
    LET WithB(r) ==
            assert_flag(
                assert_flag(
                    assert_flag(r, ZERO, BitAnd(c.a, r.v) = 0),
                    NEGATIVE, BitAnd(r.v, 128) # 0),
                OVERFLOW, BitAnd(r.v, 64) # 0)
    IN  WithB(dispatch_load(c, mode))

\* register transfers
tax(c, mode) == update_zn_flags(set_x(c, c.a), c.a)

txa(c, mode) == update_zn_flags(set_a(c, c.x), c.x)

tay(c, mode) == update_zn_flags(set_y(c, c.a), c.a)

tya(c, mode) == update_zn_flags(set_a(c, c.y), c.y)

tsx(c, mode) == update_zn_flags(set_x(c, c.s), c.s)

txs(c, mode) == update_zn_flags(set_s(c, c.x), c.x)

\* stack ops
pha(c, mode) == push_u8(c, c.a)

pla(c, mode) ==
    LET WithV(r) == set_a(update_zn_flags(r, r.v), r.v)
    IN  WithV(pull_u8(c))

php(c, mode) == push_u8(c, BitOr(c.p, BREAK))

plp(c, mode) ==
    LET WithVal(r) == set_p(r, BitAnd(r.v, BitAnd(r.p, BREAK)))
    IN  WithVal(pull_u8(c))

\* logical ops
and(c, mode) ==
    LET WithV(r) == update_zn_flags(set_a(r, BitAnd(r.a, r.v)), BitAnd(r.a, r.v))
    IN  WithV(dispatch_load(c, mode))

ora(c, mode) ==
    LET WithV(r) == update_zn_flags(set_a(r, BitOr(r.a, r.v)), BitOr(r.a, r.v))
    IN  WithV(dispatch_load(c, mode))

eor(c, mode) ==
    LET WithV(r) == update_zn_flags(set_a(r, BitXor(r.a, r.v)), BitXor(r.a, r.v))
    IN  WithV(dispatch_load(c, mode))

\* arithmetic ops
adc(c, mode) ==
    LET WithV(r) ==
            LET res == IF is_flag_set(r, CARRY) THEN c.a + r.v + 1 ELSE c.a + r.v
            IN  update_zn_flags(
                    set_a(assert_flag(
                              assert_flag(r, CARRY, BitAnd(res, 256) # 0),
                              OVERFLOW, check_overflow(c.a, r.v, res % U8)),
                          res % U8),
                    res % U8)
    IN  WithV(dispatch_load(c, mode))

sbc(c, mode) ==
    LET WithV(r) ==
            LET m    == IF is_flag_set(r, CARRY) THEN r.v ELSE r.v + 1
                \* `!v + 1` on a u16 leaves the type when v = 0
                twos == (Not16(m) + 1) % U16
                sum  == c.a + twos
                res  == (sum % U16) % U8
            IN  update_zn_flags(
                    set_a(assert_flag(
                              assert_flag(Overflowed(r, m = 0), CARRY, sum > 65535),
                              OVERFLOW, check_overflow(r.a, r.v, res)),
                          res),
                    res)
    IN  WithV(dispatch_load(c, mode))

\* increments and decrements
inc(c, mode) ==
    LET WithV(r) == dispatch_store(update_zn_flags(r, WrapAdd8(r.v, 1)), WrapAdd8(r.v, 1), mode)
    IN  WithV(dispatch_load(c, mode))

dec(c, mode) ==
    LET WithV(r) ==
            dispatch_store(update_zn_flags(r, WrapAdd8(r.v, 255)), WrapAdd8(r.v, 255), mode)
    IN  WithV(dispatch_load(c, mode))

inx(c, mode) == set_x(update_zn_flags(c, WrapAdd8(c.x, 1)), WrapAdd8(c.x, 1))

\* a faulty dex that decrements X and leaves Z and N as they were
dex_no_flags(c, mode) == set_x(c, WrapAdd8(c.x, 255))

dex(c, mode) == set_x(update_zn_flags(c, WrapAdd8(c.x, 255)), WrapAdd8(c.x, 255))

iny(c, mode) == set_y(update_zn_flags(c, WrapAdd8(c.y, 1)), WrapAdd8(c.y, 1))

dey(c, mode) == set_y(update_zn_flags(c, WrapAdd8(c.y, 255)), WrapAdd8(c.y, 255))

\* shifts
rol(c, mode) ==
    LET WithB(r) ==
            LET res == BitOr((r.v * 2) % U8, IF is_flag_set(r, CARRY) THEN 1 ELSE 0)
            IN  dispatch_store(
                    update_zn_flags(assert_flag(r, CARRY, BitAnd(r.v, 128) # 0), res),
                    res, mode)
    IN  WithB(dispatch_load(c, mode))

asl(c, mode) ==
    LET WithB(r) ==
            LET res == (r.v * 2) % U8
            IN  dispatch_store(
                    update_zn_flags(assert_flag(r, CARRY, BitAnd(r.v, 128) # 0), res),
                    res, mode)
    IN  WithB(dispatch_load(c, mode))

ror(c, mode) ==
    LET WithB(r) ==
            LET res == BitOr(r.v \div 2, IF is_flag_set(r, CARRY) THEN 128 ELSE 0)
            IN  dispatch_store(
                    update_zn_flags(assert_flag(r, CARRY, BitAnd(r.v, 1) # 0), res),
                    res, mode)
    IN  WithB(dispatch_load(c, mode))

\* a faulty lsr that shifts and loses the bit shifted out instead of keeping it
\* in the carry
lsr_keep_carry(c, mode) ==
    LET WithB(r) == dispatch_store(update_zn_flags(r, r.v \div 2), r.v \div 2, mode)
    IN  WithB(dispatch_load(c, mode))

lsr(c, mode) ==
    LET WithB(r) ==
            LET res == r.v \div 2
            IN  dispatch_store(
                    update_zn_flags(assert_flag(r, CARRY, BitAnd(r.v, 1) # 0), res),
                    res, mode)
    IN  WithB(dispatch_load(c, mode))

\* jumps and calls
jmp(c, mode) ==
    LET WithAddr(r) == set_pc(r, r.v)
    IN  WithAddr(load_u16_bump_pc(c))

jmp_indirect(c, mode) ==
    LET WithPtr(r) ==
            LET WithLo(lo) ==
                    LET WithHi(hi) == set_pc(hi, FromLeBytes(lo.v, hi.v))
                    IN  WithHi(load_from(Overflowed(lo, r.v = 65535),
                                         BitOr(BitAnd(r.v, 65280),
                                               BitAnd((r.v + 1) % U16, 255))))
            IN  WithLo(load_u8(r))
    IN  WithPtr(load_u16_bump_pc(c))

jsr(c, mode) ==
    \* `pc - 1` with pc read before the operand fetch
    LET WithAddr(r) == set_pc(push_u16(Overflowed(r, c.pc = 0), (c.pc + 65535) % U16), r.v)
    IN  WithAddr(load_u16_bump_pc(c))

rts(c, mode) ==
    LET WithPos(r) == set_pc(Overflowed(r, r.v = 65535), (r.v + 1) % U16)
    IN  WithPos(pull_u16(c))

brk(c, mode) ==
    LET WithVec(r) == set_pc(r, r.v)
    IN  WithVec(load_u16(set_addr_bus(
            set_flag(push_u8(push_u16(Overflowed(c, c.pc = 65535), (c.pc + 1) % U16),
                             BitOr(c.p, 48)),
                     IRQ),
            VEC_IRQ)))

rti(c, mode) ==
    LET WithFlags(r) ==
            LET WithPc(w) == set_pc(w, w.v)
            IN  WithPc(pull_u16(clear_flag(clear_flag(set_flag(r, r.v), BREAK), UNUSED)))
    IN  WithFlags(pull_u8(c))

\* branches: both arms of the `if` add the offset to pc
branch(c, flag, cond) ==
    LET WithOff(r) ==
            IF cond /\ is_flag_set(r, flag)
            THEN set_pc(r, (r.pc + SignExtend(r.v)) % U16)
            ELSE set_pc(r, (r.pc + SignExtend(r.v)) % U16)
    IN  WithOff(load_u8_bump_pc(c))

bpl(c, mode) == branch(c, NEGATIVE, FALSE)

bmi(c, mode) == branch(c, NEGATIVE, TRUE)

bvc(c, mode) == branch(c, OVERFLOW, FALSE)

bvs(c, mode) == branch(c, OVERFLOW, TRUE)

bcc(c, mode) == branch(c, CARRY, FALSE)

bcs(c, mode) == branch(c, CARRY, TRUE)

bne(c, mode) == branch(c, ZERO, FALSE)

beq(c, mode) == branch(c, ZERO, TRUE)

\* status flag changes
clc(c, mode) == clear_flag(c, CARRY)

sec(c, mode) == set_flag(c, CARRY)

cli(c, mode) == clear_flag(c, IRQ)

sei(c, mode) == set_flag(c, IRQ)

\* a faulty clv that clears N along with V
clv_and_n(c, mode) == clear_flag(c, OVERFLOW + NEGATIVE)

clv(c, mode) == clear_flag(c, OVERFLOW)

cld(c, mode) == clear_flag(c, DECIMAL)

sed(c, mode) == set_flag(c, DECIMAL)

nop(c, mode) == Ret(c, 0)


\* Six502::reset: pc from the RESET vector through the address bus, p = 0x34,
\* a = x = y = 0
reset(c) ==
    LET WithVec(r) ==
            Then(r, [r EXCEPT !.pc = r.v, !.p = 52, !.a = 0, !.x = 0, !.y = 0])
    IN  WithVec(load_u16(set_addr_bus(c, VEC_RESET)))

\* Six502::start: reset, then 7 cycles
start(c) ==
    LET WithReset(r) == Then(r, [r EXCEPT !.cy = @ + 7])
    IN  WithReset(reset(c))

----------------------------------------------------------------------------
\* rom.rs: the iNES header parser.  A nom parser returns Ok with the parsed
\* value, or an Err that is an Error (tag, be_u8 and take on input they do not
\* match) or a Failure (the checks load_hdr makes itself).

\* the four bytes of tag("NES\x1a")
Magic == <<78, 69, 83, 26>>

\* the slice input[from..to] of a buffer, bytes being numbered from 0
Slice(buf, from, to) == [i \in 1..(to - from) |-> buf[from + i]]

\* a &[u8] compared with a byte-string literal: equal lengths and equal bytes
SliceEq(lit, sl) == Len(lit) = Len(sl) /\ \A i \in 1..Len(lit) : lit[i] = sl[i]

ParseErr(kind) ==
    [ok |-> FALSE, err |-> kind, mapper |-> 0, prg_rom_size |-> 0, chr_rom_size |-> 0,
     prg_ram_size |-> 0, trainer |-> FALSE, pal |-> FALSE]

\* Rom::load_hdr on a buffer of 16 bytes
load_hdr(input) ==
    LET flag_6 == input[7]
        flag_7 == input[8]
        trail  == Slice(input, 10, 16)
    IN  IF ~SliceEq(Magic, Slice(input, 0, 4)) THEN ParseErr("Error")
        ELSE IF BitAnd(flag_7, 12) = 8 THEN ParseErr("Failure")
        ELSE IF ~SliceEq(<<0, 0, 0, 0, 0>>, trail) THEN ParseErr("Failure")
        ELSE [ok |-> TRUE, err |-> "", mapper |-> BitOr(BitAnd(flag_7, 240), flag_6 \div 16),
              prg_rom_size |-> 16384 * input[5], chr_rom_size |-> 8192 * input[6],
              prg_ram_size |-> 8192 * input[9],
              trainer |-> BitAnd(flag_6, 4) # 0, pal |-> BitAnd(input[10], 1) = 1]

\* Rom::load_body: the trainer when flags_6 has it, then 16384 * prg_rom_size
\* and 8192 * chr_rom_size bytes; fails when the body is shorter
load_body(hdr, b_len) ==
    (IF hdr.trainer THEN 512 ELSE 0) + 16384 * hdr.prg_rom_size + 8192 * hdr.chr_rom_size
        <= b_len

\* Rom::load_rom: Ok(rom), or the Err it returns
load_rom(r) ==
    LET hdr == load_hdr(r.h_buf)
    IN  IF hdr.ok
        THEN IF load_body(hdr, r.b_len)
             THEN [st |-> "Ok", hdr |-> hdr]
             ELSE [st |-> "could not load body", hdr |-> ParseErr("")]
        ELSE [st |-> "Could not load header", hdr |-> ParseErr("")]

----------------------------------------------------------------------------
\* ctrl.rs: the controller.

\* Joypad::new
Joypad_new == [strobe |-> FALSE, index |-> 0, curr |-> 0]

\* Joypad::store_u8
Joypad_store_u8(j, d) ==
    LET strobe == BitAnd(d, 1) = 1
    IN  [j EXCEPT !.strobe = strobe, !.index = IF strobe THEN 0 ELSE @]

\* a faulty load_u8 that shifts to the next button while the strobe is high
Joypad_load_u8_shifting(j) ==
    IF j.index > 7 THEN [j |-> j, v |-> 1]
    ELSE [j |-> [j EXCEPT !.index = @ + 1],
          v |-> BitAnd(j.curr, 2 ^ j.index) \div (2 ^ j.index)]

\* Joypad::load_u8: the joypad after the read, and the byte returned in v
Joypad_load_u8(j) ==
    IF j.index > 7 THEN [j |-> j, v |-> 1]
    ELSE [j |-> [j EXCEPT !.index = IF ~j.strobe /\ j.index <= 7 THEN @ + 1 ELSE @],
          v |-> BitAnd(j.curr, 2 ^ j.index) \div (2 ^ j.index)]

\* Joypad::set_button_pressed_status: bitflags' set inserts or removes the bit
set_button_pressed_status(j, button, pressed) ==
    [j EXCEPT !.curr = IF pressed THEN BitOr(@, button) ELSE BitAnd(@, 255 - button)]

----------------------------------------------------------------------------
\* rom.rs: PagedData.  A usize is kept as an integer near 0: a negative value
\* w stands for the wrapped value 2^64 + w, so sums, differences and products
\* of small values are exact modulo 2^64 and only the order needs care.

\* m > n on usize
UGt(m, n) == IF (m < 0) = (n < 0) THEN m > n ELSE m < 0

\* the result of PagedData::nth: Ok(i), an Err, or a panic
NthOk(i) == [st |-> "Ok", i |-> i, why |-> ""]

NthErr(why) == [st |-> "Err", i |-> 0, why |-> why]

NthPanic(why) == [st |-> "panic", i |-> 0, why |-> why]

\* the arm Page::Nth of PagedData::nth on data of len bytes
nth_Nth(len, pos, n, size, oc) ==
    IF len % size # 0 THEN NthErr("not a multiple of size")
    ELSE LET num_pages == len \div size
         IN  IF num_pages = 0 /\ oc THEN NthPanic("attempt to subtract with overflow")
             ELSE IF UGt(n, num_pages - 1) THEN NthErr("page out of bounds")
             ELSE IF pos > size THEN NthErr("pos out of bounds")
             ELSE NthOk(n * size + pos)

\* PagedData::nth: Zero, Last and RNth call nth again with Page::Nth
nth(len, pos, page, oc) ==
    LET num_pages == len \div page.size
    IN  CASE page.kind = "Zero" -> nth_Nth(len, pos, 0, page.size, oc)
          [] page.kind = "Last" ->
                IF num_pages = 0 /\ oc THEN NthPanic("attempt to subtract with overflow")
                ELSE nth_Nth(len, pos, num_pages - 1, page.size, oc)
          [] page.kind = "Nth"  -> nth_Nth(len, pos, page.n, page.size, oc)
          [] page.kind = "RNth" ->
                IF oc /\ (num_pages = 0 \/ page.n > num_pages - 1)
                THEN NthPanic("attempt to subtract with overflow")
                ELSE nth_Nth(len, pos, num_pages - 1 - page.n, page.size, oc)

\* PagedData::load_u8: nth, then the index into the Vec, which panics when the
\* index is not below its length
PagedData_load_u8(len, pos, page, oc) ==
    LET r == nth(len, pos, page, oc)
    IN  IF r.st = "Ok" /\ (r.i < 0 \/ r.i >= len)
        THEN NthPanic("index out of bounds")
        ELSE r

----------------------------------------------------------------------------
\* addressing.rs, mod table.  AddrTable names the modes by the aliases of its
\* `use`; Imm and Imp are both aliases of Impl_Addr.
AddrTable ==
    LET Acc == "Acc_Addrs"
        Abs == "Abs_Addrs"
        Abx == "AbsX_Idxd"
        Aby == "AbsY_Idxd"
        Imm == "Impl_Addr"
        Ind == "Ind_Addrs"
        Xin == "X_Idx_Ind"
        Yin == "Ind_Y_Idx"
        Zep == "Zero_Page"
        Zpx == "ZP_X_Idxd"
        Zpy == "ZP_Y_Idxd"
        Imp == "Impl_Addr"
        Rel == "Rel_Addrs"
        Non == "None"
    IN
    <<Imp, Xin, Non, Non, Non, Zep, Zep, Non, Imp, Imm, Acc, Non, Non, Abs, Abs, Non,
      Rel, Yin, Non, Non, Non, Zpx, Zpx, Non, Imp, Aby, Non, Non, Non, Abx, Abx, Non,
      Abs, Xin, Non, Non, Zep, Zep, Zep, Non, Imp, Imm, Acc, Non, Abs, Abs, Abs, Non,
      Rel, Yin, Non, Non, Non, Zpx, Zpx, Non, Imp, Aby, Non, Non, Non, Abx, Abx, Non,
      Imp, Xin, Non, Non, Non, Zep, Zep, Non, Imp, Imm, Acc, Non, Abs, Abs, Abs, Non,
      Rel, Yin, Non, Non, Non, Zpx, Zpx, Non, Imp, Aby, Non, Non, Non, Abx, Abx, Non,
      Imp, Xin, Non, Non, Non, Zep, Zep, Non, Imp, Imm, Acc, Non, Ind, Abs, Abs, Non,
      Rel, Yin, Non, Non, Non, Zpx, Zpx, Non, Imp, Aby, Non, Non, Non, Abx, Abx, Non,
      Non, Xin, Non, Non, Zep, Zep, Zep, Non, Imp, Non, Imp, Non, Abs, Abs, Abs, Non,
      Rel, Yin, Non, Non, Zpx, Zpx, Zpy, Non, Imp, Aby, Imp, Non, Non, Abx, Non, Non,
      Imm, Xin, Imm, Non, Zep, Zep, Zep, Non, Imp, Imm, Imp, Non, Abs, Abs, Abs, Non,
      Rel, Yin, Non, Non, Zpx, Zpx, Zpy, Non, Imp, Aby, Imp, Non, Abx, Abx, Aby, Non,
      Imm, Xin, Non, Non, Zep, Zep, Zep, Non, Imp, Imm, Imp, Non, Abs, Abs, Abs, Non,
      Rel, Yin, Non, Non, Non, Zpx, Zpx, Non, Imp, Aby, Non, Non, Non, Abx, Abx, Non,
      Imm, Xin, Non, Non, Zep, Zep, Zep, Non, Imp, Imm, Imp, Non, Abs, Abs, Abs, Non,
      Rel, Yin, Non, Non, Non, Zpx, Zpx, Non, Imp, Aby, Non, Non, Non, Abx, Abx, Non>>
----------------------------------------------------------------------------
\* six502/six502.rs: exec, and the tables it uses.

\* the arms of the match in Six502::exec: <<opcode, handler, addressing mode>>
ExecTable == <<
    <<0, "brk", "Impl_Addr">>, <<1, "ora", "X_Idx_Ind">>, <<5, "ora", "Zero_Page">>, <<6, "asl", "Zero_Page">>,
    <<8, "php", "Impl_Addr">>, <<9, "ora", "Immediate">>, <<10, "asl", "Acc_Addrs">>, <<13, "ora", "Abs_Addrs">>,
    <<14, "asl", "Abs_Addrs">>, <<16, "bpl", "Impl_Addr">>, <<17, "ora", "Ind_Y_Idx">>, <<21, "ora", "ZP_X_Idxd">>,
    <<22, "asl", "ZP_X_Idxd">>, <<24, "clc", "Impl_Addr">>, <<25, "ora", "AbsY_Idxd">>, <<29, "ora", "AbsX_Idxd">>,
    <<30, "asl", "AbsX_Idxd">>, <<32, "jsr", "Impl_Addr">>, <<33, "and", "X_Idx_Ind">>, <<36, "bit", "Zero_Page">>,
    <<37, "and", "Zero_Page">>, <<38, "rol", "Zero_Page">>, <<40, "plp", "Impl_Addr">>, <<41, "and", "Immediate">>,
    <<42, "rol", "Acc_Addrs">>, <<44, "bit", "Abs_Addrs">>, <<45, "and", "Abs_Addrs">>, <<46, "rol", "Abs_Addrs">>,
    <<48, "bmi", "Impl_Addr">>, <<49, "and", "Ind_Y_Idx">>, <<53, "and", "ZP_X_Idxd">>, <<54, "rol", "ZP_X_Idxd">>,
    <<56, "sec", "Impl_Addr">>, <<57, "and", "AbsY_Idxd">>, <<61, "and", "AbsX_Idxd">>, <<62, "rol", "AbsX_Idxd">>,
    <<64, "rti", "Impl_Addr">>, <<65, "eor", "X_Idx_Ind">>, <<69, "eor", "Zero_Page">>, <<70, "lsr", "Zero_Page">>,
    <<72, "pha", "Impl_Addr">>, <<73, "eor", "Immediate">>, <<74, "lsr", "Acc_Addrs">>, <<76, "jmp", "Impl_Addr">>,
    <<77, "eor", "Abs_Addrs">>, <<78, "lsr", "Abs_Addrs">>, <<80, "bvc", "Impl_Addr">>, <<81, "eor", "Ind_Y_Idx">>,
    <<85, "eor", "ZP_X_Idxd">>, <<86, "lsr", "ZP_X_Idxd">>, <<88, "cli", "Impl_Addr">>, <<89, "eor", "AbsY_Idxd">>,
    <<93, "eor", "AbsX_Idxd">>, <<94, "lsr", "AbsX_Idxd">>, <<96, "rts", "Impl_Addr">>, <<97, "adc", "X_Idx_Ind">>,
    <<101, "adc", "Zero_Page">>, <<102, "ror", "Zero_Page">>, <<104, "pla", "Impl_Addr">>, <<105, "adc", "Immediate">>,
    <<106, "ror", "Acc_Addrs">>, <<108, "jmp_indirect", "Impl_Addr">>, <<109, "adc", "Abs_Addrs">>, <<110, "ror", "Abs_Addrs">>,
    <<112, "bvs", "Impl_Addr">>, <<113, "adc", "Ind_Y_Idx">>, <<117, "adc", "ZP_X_Idxd">>, <<118, "ror", "ZP_X_Idxd">>,
    <<120, "sei", "Impl_Addr">>, <<121, "adc", "AbsY_Idxd">>, <<125, "adc", "AbsX_Idxd">>, <<126, "ror", "AbsX_Idxd">>,
    <<129, "sta", "X_Idx_Ind">>, <<132, "sty", "Zero_Page">>, <<133, "sta", "Zero_Page">>, <<134, "stx", "Zero_Page">>,
    <<136, "dey", "Impl_Addr">>, <<138, "txa", "Impl_Addr">>, <<140, "sty", "Abs_Addrs">>, <<141, "sta", "Abs_Addrs">>,
    <<142, "stx", "Abs_Addrs">>, <<144, "bcc", "Impl_Addr">>, <<145, "sta", "Ind_Y_Idx">>, <<148, "sty", "ZP_X_Idxd">>,
    <<149, "sta", "ZP_X_Idxd">>, <<150, "stx", "ZP_Y_Idxd">>, <<152, "tya", "Impl_Addr">>, <<153, "sta", "AbsY_Idxd">>,
    <<154, "txs", "Impl_Addr">>, <<157, "sta", "AbsX_Idxd">>, <<160, "ldy", "Immediate">>, <<161, "lda", "X_Idx_Ind">>,
    <<162, "ldx", "Immediate">>, <<164, "ldy", "Zero_Page">>, <<165, "lda", "Zero_Page">>, <<166, "ldx", "Zero_Page">>,
    <<168, "tay", "Impl_Addr">>, <<169, "lda", "Immediate">>, <<170, "tax", "Impl_Addr">>, <<172, "ldy", "Abs_Addrs">>,
    <<173, "lda", "Abs_Addrs">>, <<174, "ldx", "Abs_Addrs">>, <<176, "bcs", "Impl_Addr">>, <<177, "lda", "Ind_Y_Idx">>,
    <<180, "ldy", "ZP_X_Idxd">>, <<181, "lda", "ZP_X_Idxd">>, <<182, "ldx", "ZP_Y_Idxd">>, <<184, "clv", "Impl_Addr">>,
    <<185, "lda", "AbsY_Idxd">>, <<186, "tsx", "Impl_Addr">>, <<188, "ldy", "AbsX_Idxd">>, <<189, "lda", "AbsX_Idxd">>,
    <<190, "ldx", "AbsY_Idxd">>, <<192, "cpy", "Immediate">>, <<193, "cmp", "X_Idx_Ind">>, <<196, "cpy", "Zero_Page">>,
    <<197, "cmp", "Zero_Page">>, <<198, "dec", "Zero_Page">>, <<200, "iny", "Impl_Addr">>, <<201, "cmp", "Immediate">>,
    <<202, "dex", "Impl_Addr">>, <<204, "cpy", "Abs_Addrs">>, <<205, "cmp", "Abs_Addrs">>, <<206, "dec", "Abs_Addrs">>,
    <<208, "bne", "Impl_Addr">>, <<209, "cmp", "Ind_Y_Idx">>, <<213, "cmp", "ZP_X_Idxd">>, <<214, "dec", "ZP_X_Idxd">>,
    <<216, "cld", "Impl_Addr">>, <<217, "cmp", "AbsY_Idxd">>, <<221, "cmp", "AbsX_Idxd">>, <<222, "dec", "AbsX_Idxd">>,
    <<224, "cpx", "Immediate">>, <<225, "sbc", "X_Idx_Ind">>, <<228, "cpx", "Zero_Page">>, <<229, "sbc", "Zero_Page">>,
    <<230, "inc", "Zero_Page">>, <<232, "inx", "Impl_Addr">>, <<233, "sbc", "Immediate">>, <<234, "nop", "Impl_Addr">>,
    <<236, "cpx", "Abs_Addrs">>, <<237, "sbc", "Abs_Addrs">>, <<238, "inc", "Abs_Addrs">>, <<240, "beq", "Impl_Addr">>,
    <<241, "sbc", "Ind_Y_Idx">>, <<245, "sbc", "ZP_X_Idxd">>, <<246, "inc", "ZP_X_Idxd">>, <<248, "sed", "Impl_Addr">>,
    <<249, "sbc", "AbsY_Idxd">>, <<253, "sbc", "AbsX_Idxd">>, <<254, "inc", "AbsX_Idxd">>
>>

ExecArms == {ExecTable[i] : i \in 1..Len(ExecTable)}

LegalOpcodes == {e[1] : e \in ExecArms}

ArmOf(op) == CHOOSE e \in ExecArms : e[1] = op

\* the handler exec calls for opcode op ("" when no arm matches)
HandlerOf == [op \in Byte |-> IF op \in LegalOpcodes THEN ArmOf(op)[2] ELSE ""]

\* the addressing mode exec passes to the handler
ModeOf == [op \in Byte |-> IF op \in LegalOpcodes THEN ArmOf(op)[3] ELSE "None"]

\* six502/mod.rs: base cycles per opcode
CYCLES == <<
    7, 6, 2, 8, 3, 3, 5, 5, 3, 2, 2, 2, 4, 4, 6, 6,
    2, 5, 2, 8, 4, 4, 6, 6, 2, 4, 2, 7, 4, 4, 7, 7,
    6, 6, 2, 8, 3, 3, 5, 5, 4, 2, 2, 2, 4, 4, 6, 6,
    2, 5, 2, 8, 4, 4, 6, 6, 2, 4, 2, 7, 4, 4, 7, 7,
    6, 6, 2, 8, 3, 3, 5, 5, 3, 2, 2, 2, 3, 4, 6, 6,
    2, 5, 2, 8, 4, 4, 6, 6, 2, 4, 2, 7, 4, 4, 7, 7,
    6, 6, 2, 8, 3, 3, 5, 5, 4, 2, 2, 2, 5, 4, 6, 6,
    2, 5, 2, 8, 4, 4, 6, 6, 2, 4, 2, 7, 4, 4, 7, 7,
    2, 6, 2, 6, 3, 3, 3, 3, 2, 2, 2, 2, 4, 4, 4, 4,
    2, 6, 2, 6, 4, 4, 4, 4, 2, 5, 2, 5, 5, 5, 5, 5,
    2, 6, 2, 6, 3, 3, 3, 3, 2, 2, 2, 2, 4, 4, 4, 4,
    2, 5, 2, 5, 4, 4, 4, 4, 2, 4, 2, 4, 4, 4, 4, 4,
    2, 6, 2, 8, 3, 3, 5, 5, 2, 2, 2, 2, 4, 4, 6, 6,
    2, 5, 2, 8, 4, 4, 6, 6, 2, 4, 2, 7, 4, 4, 7, 7,
    2, 6, 3, 8, 3, 3, 5, 5, 2, 2, 2, 2, 4, 4, 6, 6,
    2, 5, 2, 8, 4, 4, 6, 6, 2, 4, 2, 7, 4, 4, 7, 7
>>

----------------------------------------------------------------------------
\* Initial states.  Six502::default() starts at pc = 0xc000, which the bus
\* cannot address, so a run of the emulator is set up by a harness: it writes
\* a short program and its data into the zero page and sets the registers.
\* A set-up is a record: the three program bytes at the origin, the byte m
\* that fills the rest of the zero page, and the registers.

\* where the harness puts the program
Origins == {16}

\* the zero page of a set-up k: op, b1, b2 at the origin, m everywhere else
Image(k) ==
    [i \in 0..255 |->
        IF i = k.org THEN k.op
        ELSE IF i = k.org + 1 THEN k.b1
        ELSE IF i = k.org + 2 THEN k.b2
        ELSE k.m]

SetUps(ops, B1, B2, M, A, X, Y, S, P) ==
    [org : Origins, op : ops, b1 : B1, b2 : B2, m : M,
     a : A, x : X, y : Y, s : S, p : P]

\* every opcode exec handles, and one it does not, on a few operands
AllSetUps ==
    SetUps(LegalOpcodes \cup {2}, {0, 5, 32, 251}, {0, 32}, {0, 129},
           {129}, {1}, {1}, {253}, {36, 231})

\* every opcode once
CoverSetUps ==
    SetUps(LegalOpcodes \cup {2}, {5}, {0}, {0}, {0}, {1}, {1}, {253}, {36})

\* stack instructions, with the stack pointer at and near both ends of the page
StackOps == {72, 104, 8, 40, 32, 96, 0, 64, 154, 186}

StackSetUps ==
    SetUps(StackOps, {104, 40, 96, 32}, {0}, {0, 96},
           {0, 127, 128}, {0, 255}, {0}, {0, 1, 253, 254, 255}, {36, 52, 231})

\* branches, on every value of N, V, Z and C and offsets of both signs
BranchOps == {16, 48, 80, 112, 144, 176, 208, 240}

BranchSetUps ==
    SetUps(BranchOps, {0, 5, 127, 128, 251, 255}, {234}, {234},
           {0}, {0}, {0},  {253},
           {36 + n + v + z + c : n \in {0, 128}, v \in {0, 64}, z \in {0, 2}, c \in {0, 1}})

\* ADC and SBC, immediate and zero page, on operands around every carry and
\* overflow boundary
AluOps == {105, 101, 233, 229}

AluBytes == {0, 1, 15, 16, 63, 64, 79, 80, 127, 128, 129, 144, 176, 208, 254, 255}

AluSetUps ==
    SetUps(AluOps, AluBytes, {105}, {0, 176},
           AluBytes, {0}, {0}, {253}, {36, 37})

\* read-modify-write instructions in every mode exec gives them
RmwOps ==
    {e[1] : e \in {f \in ExecArms : f[2] \in {"inc", "dec", "asl", "lsr", "rol", "ror"}}}

RmwSetUps ==
    SetUps(RmwOps, {32, 48, 255}, {0, 32, 64}, {0, 127, 128, 255},
           {129}, {0, 1}, {0}, {253}, {36, 37})

\* instructions in the indexed and the indirect modes, with operands and
\* indices on both sides of a page boundary
IdxOps ==
    {e[1] : e \in {f \in ExecArms :
                    f[3] \in {"AbsX_Idxd", "AbsY_Idxd", "X_Idx_Ind", "Ind_Y_Idx"}}}

IdxSetUps ==
    SetUps(IdxOps, {0, 5, 254, 255}, {0, 1}, {0, 7},
           {129}, {0, 1, 2}, {0, 1, 2}, {253}, {36})

\* a harness that drives the bus alone: the memory is the image of one NOP
BusSetUps ==
    SetUps({234}, {0}, {0}, {0, 7}, {0}, {0}, {0}, {253}, {36})

\* the addresses and the bytes the harness puts on the bus: both ends of the
\* zero page, of the stack page, of the RAM and of each of its mirrors, and
\* addresses of the PPU, the controller, the decode gap and the cartridge
BusAddrs ==
    {0, 5, 255, 256, 511, 512, 2047, 2048, 2053, 4101, 6149, 8191, 8192, 16406, 16408,
     16415, 32768, 65535}

BusBytes == {1, 171}

\* compares, immediate and zero page, on registers and operands at both ends
\* of the byte range and around the sign bit
CmpOps == {201, 197, 224, 228, 192, 196}

CmpSetUps ==
    SetUps(CmpOps, {0, 1, 127, 128, 255}, {234}, {0, 128},
           {0, 1, 127, 128, 255}, {0, 128, 255}, {0, 128, 255}, {253}, {36, 231})

\* loads, immediate and zero page, and register transfers, on zero, positive
\* and negative values, with every flag set and every flag clear
MoveOps == {169, 165, 162, 166, 160, 164, 170, 168, 138, 152, 186, 154}

MoveSetUps ==
    SetUps(MoveOps, {0, 9, 128}, {234}, {0, 128},
           {0, 5, 128}, {0, 6, 128}, {0, 7, 128}, {0, 1, 253}, {36, 231})

\* shifts and rotates of the accumulator and increments and decrements of the
\* index registers, on values around every carry and wrap boundary
ShiftOps == {10, 74, 42, 106, 232, 200, 202, 136}

ShiftSetUps ==
    SetUps(ShiftOps, {234}, {234}, {0},
           AluBytes, {0, 1, 127, 128, 255}, {0, 1, 127, 128, 255}, {253}, {36, 37, 231})

\* the seven flag instructions, on every value of the flags C, Z, I, D, V and N
FlagOps == {24, 56, 88, 120, 184, 216, 248}

FlagSetUps ==
    SetUps(FlagOps, {234, 184}, {234}, {0}, {0, 129}, {1}, {2}, {0, 253},
           {32 + n + v + d + i + z + c : n \in {0, 128}, v \in {0, 64}, d \in {0, 8},
                                         i \in {0, 4}, z \in {0, 2}, c \in {0, 1}})

\* every byte that no arm of exec matches, fetched as an opcode
IllegalSetUps ==
    SetUps(Byte \ LegalOpcodes, {234}, {234}, {0}, {0, 129}, {1}, {2}, {253}, {36, 231})

\* the cartridge reader, the joypad and the paged data before anything
\* touches them
NotParsed == ParseErr("not parsed")

NotLoaded == [st |-> "none", hdr |-> ParseErr("")]

NoJoyAccess == [op |-> "none", v |-> 0, reads |-> 0, high |-> FALSE, armed |-> FALSE]

NoPagedCall ==
    [len |-> 0, pos |-> 0, page |-> [kind |-> "Zero", n |-> 0, size |-> 1024],
     call |-> "none", r |-> NthErr("")]

DevicesIdle ==
    /\ rdr = [h_buf |-> [i \in 1..16 |-> 0], b_len |-> 0]
    /\ hdr_out = NotParsed
    /\ rom = NotLoaded
    /\ joypad = Joypad_new
    /\ joy = NoJoyAccess
    /\ paged = NoPagedCall

InitWith(setups) ==
    \E k \in setups, oc \in BOOLEAN :
        /\ DevicesIdle
        /\ a = k.a /\ x = k.x /\ y = k.y /\ s = k.s /\ p = k.p
        /\ pc = k.org
        /\ cy = 0 /\ addr_bus = 0 /\ data = 0
        /\ zp = Image(k)
        /\ stack = [i \in 0..255 |-> 0]
        /\ fault = NoFault
        /\ overflow_checks = oc
        /\ bus_log = <<>>
        /\ hist = <<>>
        /\ pre_zp = Image(k)

Init == InitWith(AllSetUps)

InitStack == InitWith(CoverSetUps) \/ InitWith(StackSetUps)

InitBranch == InitWith(CoverSetUps) \/ InitWith(BranchSetUps)

InitAlu == InitWith(CoverSetUps) \/ InitWith(AluSetUps)

InitRmw == InitWith(CoverSetUps) \/ InitWith(RmwSetUps)

InitIdx == InitWith(CoverSetUps) \/ InitWith(IdxSetUps)

InitCmp == InitWith(CoverSetUps) \/ InitWith(CmpSetUps)

InitMove == InitWith(CoverSetUps) \/ InitWith(MoveSetUps)

InitShift == InitWith(CoverSetUps) \/ InitWith(ShiftSetUps)

InitFlag == InitWith(CoverSetUps) \/ InitWith(FlagSetUps)

InitIllegal == InitWith(CoverSetUps) \/ InitWith(IllegalSetUps)

InitBus == InitWith(BusSetUps)

----------------------------------------------------------------------------
\* The transition system.  One step is one call of Six502::exec; Next has one
\* disjunct per handler the match in exec dispatches to.

\* the state after the instruction: the fields of c, and the record of the step
Commit(c, h, mode) ==
    /\ a' = c.a /\ x' = c.x /\ y' = c.y /\ pc' = c.pc /\ s' = c.s
    /\ cy' = c.cy /\ p' = c.p /\ addr_bus' = c.addr_bus /\ data' = c.data
    /\ zp' = c.zp /\ stack' = c.stack /\ fault' = c.fault
    /\ overflow_checks' = c.overflow_checks
    /\ bus_log' = c.bus_log
    /\ hist' = Append(hist, [h |-> h, mode |-> mode, at |-> pc, a |-> a, x |-> x,
                             y |-> y, s |-> s, p |-> p, cy |-> cy,
                             addr_bus |-> addr_bus, data |-> data])
    /\ pre_zp' = zp
    /\ UNCHANGED dev_vars

\* the run goes on: no panic yet, and the harness still steps the CPU
Running == fault = NoFault /\ Len(hist) < MaxSteps

\* exec's opcode fetch: self.load_u8_bump_pc(); let op = self.data
Fetched == load_u8_bump_pc(Cpu)

\* the addressing mode of the arm that matches the fetched opcode
Mode == ModeOf[zp[pc]]

\* exec, when the fetched opcode matches an arm that calls handler h: c is the
\* CPU after the handler; the opcode's base cycles are added last
exec(h, c) ==
    /\ Running
    /\ pc < ZP_LEN
    /\ HandlerOf[zp[pc]] = h
    /\ Commit(Then(c, [c EXCEPT !.cy = @ + CYCLES[zp[pc] + 1]]), h, Mode)

\* exec with pc outside the zero page: the opcode fetch itself panics
FetchFault ==
    /\ Running
    /\ pc >= ZP_LEN
    /\ Commit(Fetched, "fetch", "None")

\* the values the message of unimplemented!("op not unimplemented: {}", op)
\* interpolates: the opcode, which exec took from data
unimplemented_args(c) == <<c.data>>

\* exec on a byte that no arm of the match handles: unimplemented!()
Unimplemented ==
    /\ Running
    /\ pc < ZP_LEN
    /\ zp[pc] \notin LegalOpcodes
    /\ Commit(Panic(Fetched, "not implemented: op"), "unimplemented", "None")

Next ==
    \/ exec("lda", lda(Fetched, Mode))
    \/ exec("ldx", ldx(Fetched, Mode))
    \/ exec("ldy", ldy(Fetched, Mode))
    \/ exec("sta", sta(Fetched, Mode))
    \/ exec("stx", stx(Fetched, Mode))
    \/ exec("sty", sty(Fetched, Mode))
    \/ exec("cmp", cmp(Fetched, Mode))
    \/ exec("cpx", cpx(Fetched, Mode))
    \/ exec("cpy", cpy(Fetched, Mode))
    \/ exec("bit", bit(Fetched, Mode))
    \/ exec("tax", tax(Fetched, Mode))
    \/ exec("txa", txa(Fetched, Mode))
    \/ exec("tay", tay(Fetched, Mode))
    \/ exec("tya", tya(Fetched, Mode))
    \/ exec("tsx", tsx(Fetched, Mode))
    \/ exec("txs", txs(Fetched, Mode))
    \/ exec("pha", pha(Fetched, Mode))
    \/ exec("pla", pla(Fetched, Mode))
    \/ exec("php", php(Fetched, Mode))
    \/ exec("plp", plp(Fetched, Mode))
    \/ exec("and", and(Fetched, Mode))
    \/ exec("ora", ora(Fetched, Mode))
    \/ exec("eor", eor(Fetched, Mode))
    \/ exec("adc", adc(Fetched, Mode))
    \/ exec("sbc", sbc(Fetched, Mode))
    \/ exec("inc", inc(Fetched, Mode))
    \/ exec("dec", dec(Fetched, Mode))
    \/ exec("inx", inx(Fetched, Mode))
    \/ exec("dex", dex(Fetched, Mode))
    \/ exec("iny", iny(Fetched, Mode))
    \/ exec("dey", dey(Fetched, Mode))
    \/ exec("rol", rol(Fetched, Mode))
    \/ exec("asl", asl(Fetched, Mode))
    \/ exec("ror", ror(Fetched, Mode))
    \/ exec("lsr", lsr(Fetched, Mode))
    \/ exec("jmp", jmp(Fetched, Mode))
    \/ exec("jmp_indirect", jmp_indirect(Fetched, Mode))
    \/ exec("jsr", jsr(Fetched, Mode))
    \/ exec("rts", rts(Fetched, Mode))
    \/ exec("brk", brk(Fetched, Mode))
    \/ exec("rti", rti(Fetched, Mode))
    \/ exec("bpl", bpl(Fetched, Mode))
    \/ exec("bmi", bmi(Fetched, Mode))
    \/ exec("bvc", bvc(Fetched, Mode))
    \/ exec("bvs", bvs(Fetched, Mode))
    \/ exec("bcc", bcc(Fetched, Mode))
    \/ exec("bcs", bcs(Fetched, Mode))
    \/ exec("bne", bne(Fetched, Mode))
    \/ exec("beq", beq(Fetched, Mode))
    \/ exec("clc", clc(Fetched, Mode))
    \/ exec("sec", sec(Fetched, Mode))
    \/ exec("cli", cli(Fetched, Mode))
    \/ exec("sei", sei(Fetched, Mode))
    \/ exec("clv", clv(Fetched, Mode))
    \/ exec("cld", cld(Fetched, Mode))
    \/ exec("sed", sed(Fetched, Mode))
    \/ exec("nop", nop(Fetched, Mode))
    \/ FetchFault
    \/ Unimplemented

Spec == Init /\ [][Next]_vars

SpecStack == InitStack /\ [][Next]_vars

SpecBranch == InitBranch /\ [][Next]_vars

SpecAlu == InitAlu /\ [][Next]_vars

SpecRmw == InitRmw /\ [][Next]_vars

SpecIdx == InitIdx /\ [][Next]_vars

SpecCmp == InitCmp /\ [][Next]_vars

SpecMove == InitMove /\ [][Next]_vars

SpecShift == InitShift /\ [][Next]_vars

SpecFlag == InitFlag /\ [][Next]_vars

SpecIllegal == InitIllegal /\ [][Next]_vars

\* a bus read driven from outside exec: the address is put on the address bus
\* and the byte read is latched in data
BusLoad ==
    /\ Running
    /\ \E addr \in BusAddrs :
            Commit(latch(set_addr_bus(Cpu, addr)), "bus_load", "None")

\* a bus write driven from outside exec
BusStore ==
    /\ Running
    /\ \E addr \in BusAddrs, b \in BusBytes :
            Commit(store_to(Cpu, addr, b), "bus_store", "None")

NextBus ==
    \/ BusLoad
    \/ BusStore

SpecBus == InitBus /\ [][NextBus]_vars

\* one call of Six502::nmi between two instructions
Nmi == Running /\ Commit(nmi(Cpu), "nmi", "None")

\* one call of Six502::irq between two instructions
Irq == Running /\ Commit(irq(Cpu), "irq", "None")

\* instructions, with interrupts serviced between them
NextInt ==
    \/ Next
    \/ Nmi
    \/ Irq

SpecInt == InitStack /\ [][NextInt]_vars

\* the interrupt lines that can be pending at an instruction boundary
PendingLines == {"nmi", "irq", "nmi+irq"}

\* one call of Six502::interrupt at an instruction boundary; the pending lines
\* are an input the function does not take, recorded with the step
InterruptPoll ==
    /\ Running
    /\ \E lines \in PendingLines : Commit(interrupt(Cpu), "interrupt", lines)

\* instructions, interrupt entries, and the poll of the interrupt lines
NextPoll ==
    \/ NextInt
    \/ InterruptPoll

SpecPoll == InitStack /\ [][NextPoll]_vars

\* one call of Six502::reset
Reset == Running /\ Commit(reset(Cpu), "reset", "None")

\* one call of Six502::start
Start == Running /\ Commit(start(Cpu), "start", "None")

\* instructions, interrupts, and resets from any state
NextReset ==
    \/ NextPoll
    \/ Reset
    \/ Start

SpecReset == InitStack /\ [][NextReset]_vars

----------------------------------------------------------------------------
\* The cartridge reader, the joypad and the paged data are driven on their
\* own, next to a CPU that stays as Default::default() makes it.

CpuDefault ==
    /\ a = 0 /\ x = 0 /\ y = 0 /\ pc = 49152 /\ s = 253 /\ cy = 0 /\ p = 36
    /\ addr_bus = 0 /\ data = 0
    /\ zp = [i \in 0..255 |-> 0] /\ stack = [i \in 0..255 |-> 0]
    /\ fault = NoFault
    /\ overflow_checks \in BOOLEAN
    /\ bus_log = <<>> /\ hist = <<>>
    /\ pre_zp = [i \in 0..255 |-> 0]

\* headers: the magic and two damaged magics, every pattern of bits 2-3 of byte
\* 7, mapper nibbles in bytes 6 and 7, and a padding that is zero or has one
\* non-zero byte at either end
HeaderMagics == {Magic, <<78, 69, 83, 0>>, <<77, 69, 83, 26>>}

HeaderTrails ==
    {<<0, 0, 0, 0, 0, 0>>, <<1, 0, 0, 0, 0, 0>>, <<0, 0, 0, 0, 0, 7>>}

Headers ==
    {m \o <<b4, b5, b6, b7, 0, b9>> \o t :
        m \in HeaderMagics, b4 \in {1, 2}, b5 \in {0, 1}, b6 \in {0, 16, 244},
        b7 \in {0, 4, 8, 12, 240, 248}, b9 \in {0, 1}, t \in HeaderTrails}

BodyLengths == {0, 24576}

InitRom ==
    /\ CpuDefault
    /\ rdr \in [h_buf : Headers, b_len : BodyLengths]
    /\ hdr_out = NotParsed
    /\ rom = NotLoaded
    /\ joypad = Joypad_new
    /\ joy = NoJoyAccess
    /\ paged = NoPagedCall

\* one call of Rom::load_hdr on the header of the reader
LoadHdr ==
    /\ hdr_out = NotParsed
    /\ hdr_out' = load_hdr(rdr.h_buf)
    /\ UNCHANGED <<cpu_vars, rdr, rom, joypad, joy, paged>>

\* one call of Rom::load_rom on the reader
LoadRom ==
    /\ rom = NotLoaded
    /\ rom' = load_rom(rdr)
    /\ UNCHANGED <<cpu_vars, rdr, hdr_out, joypad, joy, paged>>

NextRom ==
    \/ LoadHdr
    \/ LoadRom

SpecRom == InitRom /\ [][NextRom]_vars

\* the bits of JoypadButton: A, B, SELECT, START, UP, DOWN, LEFT, RIGHT
Buttons == {1, 2, 4, 8, 16, 32, 64, 128}

\* the bytes written to the joypad: bit 0 clear and set, with and without
\* another bit
JoyWrites == {0, 1, 2, 3}

InitJoy == CpuDefault /\ DevicesIdle

\* a write to the joypad.  The record joy follows the protocol from outside:
\* high after a write with bit 0 set, armed once a write with bit 0 clear has
\* followed it, reads counting the reads since then
JoyStore ==
    \E d \in JoyWrites :
        /\ joypad' = Joypad_store_u8(joypad, d)
        /\ joy' = IF d % 2 = 1
                  THEN [joy EXCEPT !.op = "w", !.high = TRUE, !.armed = FALSE, !.reads = 0]
                  ELSE IF joy.high
                  THEN [joy EXCEPT !.op = "w", !.high = FALSE, !.armed = TRUE, !.reads = 0]
                  ELSE [joy EXCEPT !.op = "w"]
        /\ UNCHANGED <<cpu_vars, rdr, hdr_out, rom, paged>>

\* a read of the joypad
JoyLoad ==
    /\ joy.reads < MaxReads
    /\ joypad' = Joypad_load_u8(joypad).j
    /\ joy' = [joy EXCEPT !.op = "r", !.v = Joypad_load_u8(joypad).v,
                          !.reads = IF joy.armed THEN @ + 1 ELSE @]
    /\ UNCHANGED <<cpu_vars, rdr, hdr_out, rom, paged>>

\* a button is pressed or released
JoySet ==
    \E button \in Buttons, pressed \in BOOLEAN :
        /\ joypad' = set_button_pressed_status(joypad, button, pressed)
        /\ joy' = [joy EXCEPT !.op = "set"]
        /\ UNCHANGED <<cpu_vars, rdr, hdr_out, rom, paged>>

NextJoy ==
    \/ JoyStore
    \/ JoyLoad
    \/ JoySet

SpecJoy == InitJoy /\ [][NextJoy]_vars

\* the page sizes of enum Kb
KbSizes == {1024, 4096, 8192, 16384}

\* page selectors
Pages ==
    [kind : {"Zero", "Last"}, n : {0}, size : KbSizes]
        \cup [kind : {"Nth", "RNth"}, n : 0..2, size : KbSizes]

\* data lengths: empty, whole pages, and one that is no multiple of a page
DataLengths == {0, 1000, 1024, 2048, 4096, 16384, 32768}

\* positions in and around a page of every size
Positions == {0, 1, 1023, 1024, 1025, 4096, 8192, 16383, 16384, 65535}

InitPaged ==
    /\ CpuDefault
    /\ rdr = [h_buf |-> [i \in 1..16 |-> 0], b_len |-> 0]
    /\ hdr_out = NotParsed
    /\ rom = NotLoaded
    /\ joypad = Joypad_new
    /\ joy = NoJoyAccess
    /\ paged \in [len : DataLengths, pos : Positions, page : Pages,
                  call : {"none"}, r : {NthErr("")}]

\* one call of PagedData::nth
CallNth ==
    /\ paged.call = "none"
    /\ paged' = [paged EXCEPT !.call = "nth",
                              !.r = nth(paged.len, paged.pos, paged.page, overflow_checks)]
    /\ UNCHANGED <<cpu_vars, rdr, hdr_out, rom, joypad, joy>>

\* one call of PagedData::load_u8
CallLoadU8 ==
    /\ paged.call = "none"
    /\ paged' = [paged EXCEPT !.call = "load_u8",
                              !.r = PagedData_load_u8(paged.len, paged.pos, paged.page,
                                                      overflow_checks)]
    /\ UNCHANGED <<cpu_vars, rdr, hdr_out, rom, joypad, joy>>

NextPaged ==
    \/ CallNth
    \/ CallLoadU8

SpecPaged == InitPaged /\ [][NextPaged]_vars
----------------------------------------------------------------------------
\* Properties.  They are stated over the record of the steps taken (hist),
\* the memory before the last step (pre_zp) and the state after it.

Steps == Len(hist)

\* the record of the last step
Last == hist[Len(hist)]

Flag(q, f) == BitAnd(q, f) # 0

\* the CPU as it was before the step recorded in k, with memory image mem
CpuBefore(k, mem) ==
    [a |-> k.a, x |-> k.x, y |-> k.y, pc |-> k.at, s |-> k.s, cy |-> k.cy, p |-> k.p,
     addr_bus |-> k.addr_bus, data |-> k.data, zp |-> mem, stack |-> stack,
     fault |-> NoFault, overflow_checks |-> overflow_checks, bus_log |-> <<>>,
     v |-> 0]

\* C1: JSR at address a immediately followed by RTS completes and leaves
\* PC = a + 3 and S as it was before the JSR.
C1_JsrRtsReturns ==
    \A i \in 1..Steps :
        hist[i].h = "jsr" =>
            /\ (i = Steps => fault = NoFault)
            /\ (i + 1 = Steps /\ hist[i + 1].h = "rts" =>
                    /\ fault = NoFault
                    /\ pc = (hist[i].at + 3) % U16
                    /\ s = hist[i].s)

\* the flag condition under which the branch handled by h is taken
BranchCondition(h, q) ==
    CASE h = "bpl" -> ~Flag(q, NEGATIVE)
      [] h = "bmi" -> Flag(q, NEGATIVE)
      [] h = "bvc" -> ~Flag(q, OVERFLOW)
      [] h = "bvs" -> Flag(q, OVERFLOW)
      [] h = "bcc" -> ~Flag(q, CARRY)
      [] h = "bcs" -> Flag(q, CARRY)
      [] h = "bne" -> ~Flag(q, ZERO)
      [] h = "beq" -> Flag(q, ZERO)

Branches == {"bpl", "bmi", "bvc", "bvs", "bcc", "bcs", "bne", "beq"}

\* C2: after a branch at address a with offset byte o, PC is a + 2 + signext(o)
\* (mod 2^16) if the branch's flag condition holds and a + 2 otherwise, and P
\* is unchanged.
C2_BranchIffCondition ==
    (Steps >= 1 /\ Last.h \in Branches /\ Last.at + 1 < ZP_LEN) =>
        /\ fault = NoFault
        /\ p = Last.p
        /\ pc = IF BranchCondition(Last.h, Last.p)
                THEN (Last.at + 2 + SignExtend(pre_zp[Last.at + 1])) % U16
                ELSE (Last.at + 2) % U16

\* C3: PHA immediately followed by PLA completes and leaves A and S as they
\* were before the PHA, with Z = (A = 0) and N = bit 7 of A.
C3_PhaPlaRestores ==
    \A i \in 1..Steps :
        hist[i].h = "pha" =>
            /\ (i = Steps => fault = NoFault)
            /\ (i + 1 = Steps /\ hist[i + 1].h = "pla" =>
                    /\ fault = NoFault
                    /\ a = hist[i].a
                    /\ s = hist[i].s
                    /\ Flag(p, ZERO) = (a = 0)
                    /\ Flag(p, NEGATIVE) = (a >= 128))

\* C4: PHP immediately followed by PLP completes and leaves C, Z, I, D, V and N
\* as they were before the PHP, bit 5 of P set, bit 4 of P not taken from the
\* pushed copy, and S as it was.
C4_PhpPlpRestores ==
    \A i \in 1..Steps :
        hist[i].h = "php" =>
            /\ (i = Steps => fault = NoFault)
            /\ (i + 1 = Steps /\ hist[i + 1].h = "plp" =>
                    /\ fault = NoFault
                    /\ BitAnd(p, 207) = BitAnd(hist[i].p, 207)
                    /\ Flag(p, UNUSED)
                    /\ Flag(p, BREAK) = Flag(hist[i].p, BREAK)
                    /\ s = hist[i].s)

\* the operand byte M an arithmetic instruction loaded: its last bus read
OperandRead == pre_zp[bus_log[Len(bus_log)].addr]

\* C5: ADC leaves A = (A + M + C) mod 256, C = (A + M + C > 0xFF),
\* V = ((A_old ^ R) & (M ^ R) & 0x80) != 0 for the new A = R, Z = (R = 0) and
\* N = bit 7 of R; with an immediate or zero-page operand it completes.
C5_AdcResult ==
    (Steps >= 1 /\ Last.h = "adc") =>
        /\ (Last.mode \in {"Immediate", "Zero_Page"} /\ Last.at + 1 < ZP_LEN
                => fault = NoFault)
        /\ fault = NoFault =>
                LET sum == Last.a + OperandRead + (IF Flag(Last.p, CARRY) THEN 1 ELSE 0)
                    R   == sum % 256
                IN  /\ a = R
                    /\ Flag(p, CARRY) = (sum > 255)
                    /\ Flag(p, OVERFLOW) =
                            (BitAnd(BitAnd(BitXor(Last.a, R), BitXor(OperandRead, R)), 128) # 0)
                    /\ Flag(p, ZERO) = (R = 0)
                    /\ Flag(p, NEGATIVE) = (R >= 128)
                    /\ BitAnd(p, 60) = BitAnd(Last.p, 60)

\* an ADC of 0x50 + 0x50 with carry clear has run: A = 0xA0, V and N set, C clear
C5_Witness ==
    /\ Steps >= 1 /\ Last.h = "adc" /\ fault = NoFault
    /\ Last.a = 80 /\ OperandRead = 80 /\ ~Flag(Last.p, CARRY)
    /\ a = 160 /\ Flag(p, OVERFLOW) /\ Flag(p, NEGATIVE) /\ ~Flag(p, CARRY)

\* the CPU after ADC #(M XOR 0xFF) run from the state the last step started in,
\* M being that step's immediate operand
AdcTwin ==
    adc(load_u8_bump_pc(
            CpuBefore(Last, [pre_zp EXCEPT ![Last.at + 1] = BitXor(@, 255)])),
        "Immediate")

\* C6: SBC #M completes and leaves the same A, C, V, Z and N as ADC #(M XOR 0xFF)
\* run from the same state.
C6_SbcIsAdcOfComplement ==
    (Steps >= 1 /\ Last.h = "sbc" /\ Last.mode = "Immediate" /\ Last.at + 1 < ZP_LEN) =>
        /\ fault = NoFault
        /\ a = AdcTwin.a
        /\ BitAnd(p, 195) = BitAnd(AdcTwin.p, 195)

InStackPage(addr) == 256 <= addr /\ addr <= 511

\* C7: every byte a push writes and every byte a pull reads is inside
\* $0100..$01FF; the byte of a one-byte push is at $0100 + S and the byte of a
\* one-byte pull at $0100 + ((S + 1) mod 256), S being the stack pointer before
\* the instruction.
C7_StackAddresses ==
    Steps >= 1 =>
        /\ Last.h \in {"pha", "php", "jsr", "brk"} =>
                \A i \in 1..Len(bus_log) :
                    bus_log[i].k = "w" => InStackPage(bus_log[i].addr)
        /\ Last.h \in {"pla", "plp", "rts", "rti"} =>
                \A i \in 2..Len(bus_log) : InStackPage(bus_log[i].addr)
        /\ Last.h \in {"pha", "php"} =>
                \A i \in 1..Len(bus_log) :
                    bus_log[i].k = "w" => bus_log[i].addr = 256 + Last.s
        /\ Last.h \in {"pla", "plp"} =>
                \A i \in 2..Len(bus_log) : bus_log[i].addr = 256 + ((Last.s + 1) % 256)

\* C8: a push or pull completes and moves S modulo 256: by -1 for PHA and PHP,
\* +1 for PLA and PLP, -2 for the return address of JSR and +2 for RTS.
C8_StackPointerWraps ==
    Steps >= 1 =>
        /\ s \in 0..255
        /\ Last.h \in {"pha", "php"} => fault = NoFault /\ s = (Last.s + 255) % 256
        /\ Last.h \in {"pla", "plp"} => fault = NoFault /\ s = (Last.s + 1) % 256
        /\ (Last.h = "jsr" /\ Last.at + 2 < ZP_LEN) =>
                fault = NoFault /\ s = (Last.s + 254) % 256
        /\ Last.h = "rts" => fault = NoFault /\ s = (Last.s + 2) % 256

RmwHandlers == {"inc", "dec", "asl", "lsr", "rol", "ror"}

MemoryModes == {"Zero_Page", "ZP_X_Idxd", "Abs_Addrs", "AbsX_Idxd"}

\* the byte a read-modify-write instruction makes of m with carry-in cin
RmwResult(h, m, cin) ==
    CASE h = "inc" -> (m + 1) % 256
      [] h = "dec" -> (m + 255) % 256
      [] h = "asl" -> (2 * m) % 256
      [] h = "lsr" -> m \div 2
      [] h = "rol" -> ((2 * m) % 256) + cin
      [] h = "ror" -> (m \div 2) + (128 * cin)

\* the effective address the operand bytes of the step recorded in k denote
EffectiveAddress(k, mem) ==
    CASE k.mode = "Zero_Page" -> mem[k.at + 1]
      [] k.mode = "ZP_X_Idxd" -> (mem[k.at + 1] + k.x) % 256
      [] k.mode = "Abs_Addrs" -> mem[k.at + 1] + 256 * mem[k.at + 2]
      [] k.mode = "AbsX_Idxd" -> (mem[k.at + 1] + 256 * mem[k.at + 2] + k.x) % U16

\* C9: a read-modify-write instruction in a memory mode whose effective address
\* EA is in the zero page completes, leaves memory as it was except that the
\* byte at EA holds the result computed from the old byte at EA, and sets Z
\* and N from that result.
C9_RmwInPlace ==
    (/\ Steps >= 1 /\ Last.h \in RmwHandlers /\ Last.mode \in MemoryModes
     /\ Last.at + 2 < ZP_LEN
     /\ EffectiveAddress(Last, pre_zp) < ZP_LEN) =>
        LET ea == EffectiveAddress(Last, pre_zp)
            w  == RmwResult(Last.h, pre_zp[ea], IF Flag(Last.p, CARRY) THEN 1 ELSE 0)
        IN  /\ fault = NoFault
            /\ zp = [pre_zp EXCEPT ![ea] = w]
            /\ Flag(p, ZERO) = (w = 0)
            /\ Flag(p, NEGATIVE) = (w >= 128)

ControlFlow == Branches \cup {"jmp", "jmp_indirect", "jsr", "rts", "rti", "brk"}

\* the number of operand bytes of an addressing mode
OperandLength(mode) ==
    CASE mode \in {"Impl_Addr", "Acc_Addrs"} -> 0
      [] mode \in {"Immediate", "Zero_Page", "ZP_X_Idxd", "ZP_Y_Idxd",
                   "X_Idx_Ind", "Ind_Y_Idx"} -> 1
      [] mode \in {"Abs_Addrs", "AbsX_Idxd", "AbsY_Idxd"} -> 2

\* C10: a completed step of an instruction that is no jump, call, return,
\* branch or BRK leaves PC = a + 1 + the operand length of its addressing mode,
\* a being the address of its opcode.
C10_PcAdvance ==
    (/\ Steps >= 1 /\ fault = NoFault
     /\ Last.h \notin ControlFlow \cup {"fetch", "unimplemented"}) =>
        pc = (Last.at + 1 + OperandLength(Last.mode)) % U16


\* the 16-bit operand of the step recorded in k: low byte at k.at + 1, high
\* byte at k.at + 2
Operand16(k, mem) == mem[k.at + 1] + 256 * mem[k.at + 2]

\* C11: JMP abs with operand bytes LL at a + 1 and HH at a + 2 completes with
\* PC = $HHLL, having read the operand from a + 1 and then from a + 2.
C11_JmpAbsolute ==
    (Steps >= 1 /\ Last.h = "jmp" /\ Last.at + 2 < ZP_LEN) =>
        /\ fault = NoFault
        /\ pc = Operand16(Last, pre_zp)
        /\ Len(bus_log) = 3
        /\ bus_log[2].addr = Last.at + 1
        /\ bus_log[3].addr = Last.at + 2

\* C12: indirect JMP with a pointer $00LL in the zero page completes with the
\* low byte of PC taken from $00LL and the high byte from $00 | ((LL + 1) & 0xFF).
C12_JmpIndirect ==
    (/\ Steps >= 1 /\ Last.h = "jmp_indirect" /\ Last.at + 2 < ZP_LEN
     /\ pre_zp[Last.at + 2] = 0) =>
        /\ fault = NoFault
        /\ pc = pre_zp[pre_zp[Last.at + 1]]
                    + 256 * pre_zp[(pre_zp[Last.at + 1] + 1) % 256]

\* the handlers that read their operand through dispatch_load and store nothing
ReadHandlers ==
    {"lda", "ldx", "ldy", "cmp", "cpx", "cpy", "bit", "and", "ora", "eor", "adc", "sbc"}

\* the index register an indexed mode adds
IndexOf(k) == IF k.mode \in {"AbsX_Idxd", "X_Idx_Ind"} THEN k.x ELSE k.y

\* C13: a read through Absolute,X or Absolute,Y fetches its two operand bytes
\* and then accesses ($HHLL + index) mod 2^16, carry into the high byte included.
C13_AbsoluteIndexedAddress ==
    (/\ Steps >= 1 /\ Last.h \in ReadHandlers
     /\ Last.mode \in {"AbsX_Idxd", "AbsY_Idxd"} /\ Last.at + 2 < ZP_LEN) =>
        /\ Len(bus_log) = 4
        /\ bus_log[4].addr = (Operand16(Last, pre_zp) + IndexOf(Last)) % U16

\* the zero-page location of the pointer an indirect mode reads
PointerLocation(k, mem) ==
    IF k.mode = "X_Idx_Ind" THEN (mem[k.at + 1] + k.x) % 256 ELSE mem[k.at + 1]

\* the effective address an indirect mode makes of the pointer at location q
IndirectAddress(k, mem, q) ==
    (mem[q] + 256 * mem[(q + 1) % 256]
        + (IF k.mode = "Ind_Y_Idx" THEN k.y ELSE 0)) % U16

\* C14: a load or a store through (zp,X) or (zp),Y reads the low byte of the
\* effective address from the pointer location p in the zero page and the high
\* byte from (p + 1) & 0xFF, and does so without fault, p = 0xFF included.
C14_ZeroPagePointerWraps ==
    (/\ Steps >= 1 /\ Last.h \in ReadHandlers \cup {"sta"}
     /\ Last.mode \in {"X_Idx_Ind", "Ind_Y_Idx"} /\ Last.at + 1 < ZP_LEN) =>
        LET q == PointerLocation(Last, pre_zp)
        IN  /\ Len(bus_log) >= 4
            /\ bus_log[3].addr = q
            /\ bus_log[4].addr = (q + 1) % 256
            /\ IndirectAddress(Last, pre_zp, q) < ZP_LEN => fault = NoFault

\* the cycles the last step added to the cycle counter
CyclesOfLast == cy - Last.cy

\* C15: a completed step of a legal opcode advances the cycle counter by at
\* least 2 and at most 8.
C15_CyclesPerStep ==
    (Steps >= 1 /\ fault = NoFault /\ Last.h \notin {"fetch", "unimplemented"}) =>
        /\ 2 <= CyclesOfLast
        /\ CyclesOfLast <= 8

\* the modes whose cost depends on a page crossing
PageCrossModes == {"AbsX_Idxd", "AbsY_Idxd", "Ind_Y_Idx"}

\* the opcode of the step recorded in k
OpcodeOf(k, mem) == mem[k.at]

\* C16: a completed step of an instruction that is no branch and whose mode has
\* no page-cross penalty adds exactly its opcode's entry of the cycle table:
\* LDA #imm adds 2.
C16_BaseCycles ==
    (/\ Steps >= 1 /\ fault = NoFault
     /\ Last.h \notin Branches \cup {"fetch", "unimplemented"}
     /\ Last.mode \notin PageCrossModes) =>
        CyclesOfLast = CYCLES[OpcodeOf(Last, pre_zp) + 1]

\* the cycles the claim gives a branch at k.at with offset byte mem[k.at + 1]
BranchCycles(k, mem) ==
    LET through == (k.at + 2) % U16
        target  == (through + SignExtend(mem[k.at + 1])) % U16
    IN  IF ~BranchCondition(k.h, k.p) THEN 2
        ELSE IF target \div 256 = through \div 256 THEN 3
        ELSE 4

\* C17: a completed branch adds 2 cycles when its condition does not hold, 3
\* when it is taken within the page of the fall-through address and 4 when it
\* is taken to another page.
C17_BranchCycles ==
    (Steps >= 1 /\ fault = NoFault /\ Last.h \in Branches /\ Last.at + 1 < ZP_LEN) =>
        CyclesOfLast = BranchCycles(Last, pre_zp)

\* the instructions that pay for a page crossing
PenaltyHandlers == {"adc", "and", "cmp", "eor", "lda", "ldx", "ldy", "ora", "sbc"}

\* the low byte of the base address an indexed mode adds its index to
BaseLow(k, mem) ==
    IF k.mode = "Ind_Y_Idx" THEN mem[mem[k.at + 1]] ELSE mem[k.at + 1]

\* C18: a completed read in Absolute,X, Absolute,Y or (Indirect),Y costs the
\* base count of its opcode, plus 1 exactly when the low byte of the base
\* address plus the index exceeds 0xFF.
C18_PageCrossPenalty ==
    (/\ Steps >= 1 /\ fault = NoFault /\ Last.h \in PenaltyHandlers
     /\ Last.mode \in PageCrossModes /\ Last.at + 2 < ZP_LEN) =>
        CyclesOfLast =
            CYCLES[OpcodeOf(Last, pre_zp) + 1]
                + (IF BaseLow(Last, pre_zp) + IndexOf(Last) > 255 THEN 1 ELSE 0)

\* offsets k into the 2 KiB RAM, and the four places each one is mirrored at
MirrorOffsets == {0, 5, 255, 256, 2047}

MirrorsOf(k) == {k, 2048 + k, 4096 + k, 6144 + k}

\* the address of the last harness-driven bus access
BusAddressOfLast == bus_log[Len(bus_log)].addr

\* C19: in every state the bus reads at $0000+k, $0800+k, $1000+k and $1800+k
\* return the same byte for every RAM offset k, and a write to an address of
\* the RAM or of its mirrors completes.
C19_RamMirrors ==
    /\ fault = NoFault =>
            \A k \in MirrorOffsets : \A m \in MirrorsOf(k) :
                /\ Ok(bus_load_u8(Cpu, m))
                /\ bus_load_u8(Cpu, m).v = bus_load_u8(Cpu, k).v
    /\ (Steps >= 1 /\ Last.h = "bus_store" /\ BusAddressOfLast < 8192) =>
            fault = NoFault

\* C20: a bus read and a bus write complete without fault at every 16-bit
\* address.
C20_EveryAddressDecodes ==
    (Steps >= 1 /\ Last.h \in {"bus_load", "bus_store"}) => fault = NoFault

\* the decode gap $4018..$401F
DecodeGap == 16408..16415

\* C21: a bus read in the decode gap $4018..$401F completes and returns 0, and
\* a bus write there completes and changes no memory.
C21_DecodeGap ==
    (/\ Steps >= 1 /\ Last.h \in {"bus_load", "bus_store"}
     /\ BusAddressOfLast \in DecodeGap) =>
        /\ fault = NoFault
        /\ zp = pre_zp
        /\ Last.h = "bus_load" => data = 0

\* the register a compare instruction compares, as it was before the step
ComparedRegister(k) ==
    CASE k.h = "cmp" -> k.a
      [] k.h = "cpx" -> k.x
      [] k.h = "cpy" -> k.y

\* C22: a compare of register R with operand M sets C = (R >= M), Z = (R = M)
\* and N = bit 7 of (R - M) mod 256, and leaves V, A, X, Y and memory as they
\* were; with an immediate or zero-page operand it completes.
C22_CompareFlags ==
    (Steps >= 1 /\ Last.h \in {"cmp", "cpx", "cpy"}) =>
        /\ (Last.mode \in {"Immediate", "Zero_Page"} /\ Last.at + 1 < ZP_LEN
                => fault = NoFault)
        /\ fault = NoFault =>
                LET R == ComparedRegister(Last)
                    M == OperandRead
                IN  /\ Flag(p, CARRY) = (R >= M)
                    /\ Flag(p, ZERO) = (R = M)
                    /\ Flag(p, NEGATIVE) = (((R - M) % 256) >= 128)
                    /\ Flag(p, OVERFLOW) = Flag(Last.p, OVERFLOW)
                    /\ a = Last.a /\ x = Last.x /\ y = Last.y
                    /\ zp = pre_zp

\* a CPX of X = 0x00 with operand 0x01 has run with C and Z set before it: C and
\* Z are clear, N is set
C22_Witness ==
    /\ Steps >= 1 /\ Last.h = "cpx" /\ fault = NoFault
    /\ Last.x = 0 /\ OperandRead = 1 /\ Flag(Last.p, CARRY) /\ Flag(Last.p, ZERO)
    /\ ~Flag(p, CARRY) /\ ~Flag(p, ZERO) /\ Flag(p, NEGATIVE)

Loads == {"lda", "ldx", "ldy"}

Transfers == {"tax", "tay", "txa", "tya", "tsx"}

\* the value a load or a transfer moves: the operand read, or the source
\* register as it was before the step
MovedValue(k) ==
    CASE k.h \in Loads -> OperandRead
      [] k.h \in {"tax", "tay"} -> k.a
      [] k.h = "txa" -> k.x
      [] k.h = "tya" -> k.y
      [] k.h = "tsx" -> k.s

C24_TxsKeepsFlags ==
    (Steps >= 1 /\ Last.h = "txs") =>
        /\ fault = NoFault
        /\ s = Last.x
        /\ p = Last.p

\* the carry a shift or rotate of m leaves: bit 7 of m when shifting left, bit 0
\* when shifting right
CarryOut(h, m) == IF h \in {"asl", "rol"} THEN m >= 128 ELSE m % 2 = 1

\* C25: in accumulator mode ASL, LSR, ROL and ROR complete and leave in A the
\* shifted or rotated old A (the old carry rotated in by ROL and ROR), in C
\* the bit shifted out, and Z and N set from the new A.
C25_ShiftAccumulator ==
    (/\ Steps >= 1 /\ Last.h \in {"asl", "lsr", "rol", "ror"}
     /\ Last.mode = "Acc_Addrs") =>
        /\ fault = NoFault
        /\ a = RmwResult(Last.h, Last.a, IF Flag(Last.p, CARRY) THEN 1 ELSE 0)
        /\ Flag(p, CARRY) = CarryOut(Last.h, Last.a)
        /\ Flag(p, ZERO) = (a = 0)
        /\ Flag(p, NEGATIVE) = (a >= 128)

\* a ROR of A = 0x01 with the carry set has run: A = 0x80, C and N are set
C25_Witness ==
    /\ Steps >= 1 /\ Last.h = "ror" /\ Last.mode = "Acc_Addrs" /\ fault = NoFault
    /\ Last.a = 1 /\ Flag(Last.p, CARRY)
    /\ a = 128 /\ Flag(p, CARRY) /\ Flag(p, NEGATIVE) /\ ~Flag(p, ZERO)

\* the register INX, DEX, INY or DEY makes of its register r
Stepped(h, r) == IF h \in {"inx", "iny"} THEN (r + 1) % 256 ELSE (r + 255) % 256

\* C26: INX, INY, DEX and DEY complete, move their register by one modulo 256,
\* set Z and N from the new value and change no other register, flag or
\* memory byte.
C26_IndexIncDec ==
    (Steps >= 1 /\ Last.h \in {"inx", "iny", "dex", "dey"}) =>
        /\ fault = NoFault
        /\ x = IF Last.h \in {"inx", "dex"} THEN Stepped(Last.h, Last.x) ELSE Last.x
        /\ y = IF Last.h \in {"iny", "dey"} THEN Stepped(Last.h, Last.y) ELSE Last.y
        /\ a = Last.a /\ s = Last.s /\ zp = pre_zp
        /\ Flag(p, ZERO) = ((IF Last.h \in {"inx", "dex"} THEN x ELSE y) = 0)
        /\ Flag(p, NEGATIVE) = ((IF Last.h \in {"inx", "dex"} THEN x ELSE y) >= 128)
        /\ BitAnd(p, 125) = BitAnd(Last.p, 125)

\* an INX of X = 0xFF has run with N set before it: X is 0, Z is set and N is
\* clear
C26_Witness ==
    /\ Steps >= 1 /\ Last.h = "inx" /\ fault = NoFault
    /\ Last.x = 255 /\ Flag(Last.p, NEGATIVE)
    /\ x = 0 /\ Flag(p, ZERO) /\ ~Flag(p, NEGATIVE)

\* C27: BRK at address a completes with S decreased by 3 modulo 256, its three
\* writes in the stack page at $0100 + S, $0100 + S - 1 and $0100 + S - 2 (the
\* return address a + 2 high then low, then P | 0x30), I set and the other
\* flags as they were, and PC read from $FFFE and $FFFF.
C27_BrkEntry ==
    (Steps >= 1 /\ Last.h = "brk") =>
        LET writes == SelectSeq(bus_log, LAMBDA e : e.k = "w")
            reads  == SelectSeq(bus_log, LAMBDA e : e.k = "r")
        IN  /\ fault = NoFault
            /\ s = (Last.s + 253) % 256
            /\ p = BitOr(Last.p, IRQ)
            /\ Len(writes) = 3
            /\ \A i \in 1..3 : writes[i].addr = 256 + ((Last.s + 256 - (i - 1)) % 256)
            /\ Len(reads) = 3
            /\ reads[2].addr = VEC_IRQ
            /\ reads[3].addr = VEC_IRQ + 1

\* the byte of the stack page the stack pointer sp + n selects
StackByte(sp, n) == stack[(sp + n) % 256]

\* the six flags RTI restores
RestoredFlags == CARRY + ZERO + IRQ + DECIMAL + OVERFLOW + NEGATIVE

\* C28: RTI completes with S increased by 3 modulo 256, the flags C, Z, I, D, V
\* and N equal to those bits of the first pulled byte, bit 5 of P set, and PC
\* the word of the next two pulled bytes, low byte first, with nothing added.
C28_Rti ==
    (Steps >= 1 /\ Last.h = "rti") =>
        /\ fault = NoFault
        /\ s = (Last.s + 3) % 256
        /\ BitAnd(p, RestoredFlags) = BitAnd(StackByte(Last.s, 1), RestoredFlags)
        /\ Flag(p, UNUSED)
        /\ pc = StackByte(Last.s, 2) + 256 * StackByte(Last.s, 3)

\* the operations that write a copy of P to the stack
PushesP == {"php", "brk", "nmi", "irq"}

\* the stack pointer at which the step recorded in k writes its copy of P:
\* PHP writes it first, the others after the two bytes of the return address
SlotOfP(k) == IF k.h = "php" THEN k.s ELSE (k.s + 254) % 256

\* C29: PHP, BRK, NMI entry and IRQ entry complete and leave in the stack page a
\* copy of P that has bit 5 set and has bit 4 set exactly when it was written
\* by BRK or PHP.
C29_PushedStatus ==
    (Steps >= 1 /\ Last.h \in PushesP) =>
        /\ fault = NoFault
        /\ Flag(stack[SlotOfP(Last)], UNUSED)
        /\ Flag(stack[SlotOfP(Last)], BREAK) <=> (Last.h \in {"brk", "php"})

\* C30: servicing an NMI or IRQ with program counter pc completes with S
\* decreased by 3 modulo 256, three writes at $0100 + S, $0100 + S - 1 and
\* $0100 + S - 2, I set and the other bits of P as they were, the two bytes of
\* PC read from $FFFA/$FFFB for NMI and $FFFE/$FFFF for IRQ, exactly 7 cycles
\* added, and no read at pc.
C30_InterruptEntry ==
    (Steps >= 1 /\ Last.h \in {"nmi", "irq"}) =>
        LET writes == SelectSeq(bus_log, LAMBDA e : e.k = "w")
            reads  == SelectSeq(bus_log, LAMBDA e : e.k = "r")
            vector == IF Last.h = "nmi" THEN VEC_NMI ELSE VEC_IRQ
        IN  /\ fault = NoFault
            /\ s = (Last.s + 253) % 256
            /\ p = BitOr(Last.p, IRQ)
            /\ Len(writes) = 3
            /\ \A i \in 1..3 : writes[i].addr = 256 + ((Last.s + 256 - (i - 1)) % 256)
            /\ Len(reads) = 2
            /\ reads[1].addr = vector
            /\ reads[2].addr = vector + 1
            /\ cy = Last.cy + 7

\* C31: an IRQ asserted while I is set is not serviced: the step completes with
\* PC, S and P as they were and without a write to memory or the stack.
C31_IrqMasked ==
    (Steps >= 1 /\ Last.h = "irq" /\ Flag(Last.p, IRQ)) =>
        /\ fault = NoFault
        /\ pc = Last.at
        /\ s = Last.s
        /\ p = Last.p
        /\ zp = pre_zp
        /\ \A i \in 1..Len(bus_log) : bus_log[i].k # "w"

\* C32: at an instruction boundary with an NMI pending, alone or together with
\* an IRQ, the NMI is serviced: the step completes with S decreased by 3
\* modulo 256, I set, and PC read from the NMI vector and not from the IRQ
\* vector.
C32_NmiFirst ==
    (Steps >= 1 /\ Last.h = "interrupt" /\ Last.mode \in {"nmi", "nmi+irq"}) =>
        /\ fault = NoFault
        /\ s = (Last.s + 253) % 256
        /\ Flag(p, IRQ)
        /\ \E i \in 1..Len(bus_log) : bus_log[i].k = "r" /\ bus_log[i].addr = VEC_NMI
        /\ \A i \in 1..Len(bus_log) : bus_log[i].addr # VEC_IRQ

\* C33: a reset from any state completes with S = 0xFD, P = 0x24 and PC read
\* from $FFFC and $FFFD, without a write to memory or the stack.
C33_Reset ==
    (Steps >= 1 /\ Last.h \in {"reset", "start"}) =>
        /\ fault = NoFault
        /\ s = 253
        /\ p = 36
        /\ Len(bus_log) = 2
        /\ bus_log[1] = [k |-> "r", addr |-> VEC_RESET]
        /\ bus_log[2] = [k |-> "r", addr |-> VEC_RESET + 1]
        /\ zp = pre_zp

FlagHandlers == {"clc", "sec", "cli", "sei", "clv", "cld", "sed"}

\* the flag a flag instruction names
NamedFlag(h) ==
    CASE h \in {"clc", "sec"} -> CARRY
      [] h \in {"cli", "sei"} -> IRQ
      [] h = "clv"            -> OVERFLOW
      [] h \in {"cld", "sed"} -> DECIMAL

C35_InvalidOpcode ==
    (Steps >= 1 /\ Last.at < ZP_LEN /\ pre_zp[Last.at] \notin LegalOpcodes) =>
        LET args == unimplemented_args(Cpu)
        IN  /\ Last.h = "unimplemented"
            /\ fault # NoFault
            /\ cy = Last.cy
            /\ a = Last.a /\ x = Last.x /\ y = Last.y /\ s = Last.s /\ p = Last.p
            /\ zp = pre_zp
            /\ \E i \in 1..Len(args) : args[i] = pre_zp[Last.at]
            /\ \E i \in 1..Len(args) : args[i] = Last.at

\* a header the parser has to accept: the magic, bits 2-3 of byte 7 other than
\* 0b10, and bytes 10..15 zero
ValidHeader(h) ==
    /\ h[1] = 78 /\ h[2] = 69 /\ h[3] = 83 /\ h[4] = 26
    /\ (h[8] \div 4) % 4 # 2
    /\ \A i \in 11..16 : h[i] = 0

\* C36: Rom::load_hdr accepts a 16-byte header exactly when it is valid, with
\* mapper number (byte7 & 0xF0) | (byte6 >> 4); Rom::load_rom builds no ROM from
\* a header that is not valid, and reports a header failure for it.
C36_HeaderAccepted ==
    /\ hdr_out # NotParsed =>
            /\ hdr_out.ok <=> ValidHeader(rdr.h_buf)
            /\ hdr_out.ok =>
                    hdr_out.mapper = 16 * (rdr.h_buf[8] \div 16) + (rdr.h_buf[7] \div 16)
    /\ (rom # NotLoaded /\ ~ValidHeader(rdr.h_buf)) => rom.st = "Could not load header"

\* whether the button numbered n (A = 0 ... Right = 7) is held, as 0 or 1
Pressed(n) == (joypad.curr \div (2 ^ n)) % 2

\* C37: after a write with bit 0 set and then a write with bit 0 clear, the
\* k-th read returns the state of button k - 1 (A, B, Select, Start, Up, Down,
\* Left, Right) for k = 1..8 and 1 for every later k; a read while the strobe
\* is high returns the state of A and leaves the index 0; the index is always
\* in 0..8.
C37_ShiftRegister ==
    /\ joypad.index \in 0..8
    /\ (joy.op = "r" /\ joy.armed) =>
            joy.v = IF joy.reads <= 8 THEN Pressed(joy.reads - 1) ELSE 1
    /\ (joy.op = "r" /\ joy.high) => (joy.v = Pressed(0) /\ joypad.index = 0)

\* the eighth read after a strobe has returned 1 for Right held, with A
\* released
C37_Witness ==
    /\ joy.op = "r" /\ joy.armed /\ joy.reads = 8
    /\ joy.v = 1 /\ Pressed(7) = 1 /\ Pressed(0) = 0

\* the handlers that resolve their operand by the mode exec passes them; the
\* jumps, calls, returns and branches ignore it
ModeTakers == {HandlerOf[op] : op \in LegalOpcodes} \ ControlFlow

\* C38: the addressing mode AddrTable stores for a legal opcode is not None,
\* and for an opcode whose handler resolves its operand by the mode exec passes
\* it is that mode.
C38_DecodersAgree ==
    (Steps >= 1 /\ Last.h \notin {"fetch", "unimplemented"}) =>
        LET op == pre_zp[Last.at]
        IN  /\ AddrTable[op + 1] # "None"
            /\ Last.h \in ModeTakers => AddrTable[op + 1] = Last.mode

\* the page a selector selects in data of len bytes
SelectedPage(len, page) ==
    CASE page.kind = "Zero" -> 0
      [] page.kind = "Last" -> (len \div page.size) - 1
      [] page.kind = "Nth"  -> page.n
      [] page.kind = "RNth" -> (len \div page.size) - 1 - page.n

\* C39: a call of PagedData::nth or load_u8 does not panic, and an index it
\* returns is inside the selected page and inside the data.
C39_NthInPage ==
    paged.call # "none" =>
        /\ paged.r.st # "panic"
        /\ paged.r.st = "Ok" =>
                LET n == SelectedPage(paged.len, paged.page)
                IN  /\ n * paged.page.size <= paged.r.i
                    /\ paged.r.i < (n + 1) * paged.page.size
                    /\ paged.r.i < paged.len
====
